---- MODULE Spec2Model ----
(***************************************************************************)
(* Record extraction pipeline of the foreclosed-properties scrapers:       *)
(*   - deduplication (BPIManualHTMLParser.save_properties,                 *)
(*     EastwestBankScraper._remove_duplicates)                             *)
(*   - the PDF table pass of PNBScraper._extract_property_list with its    *)
(*     carry-over metadata                                                 *)
(*   - the record locator EastwestBankScraper._find_property_blocks        *)
(*   - the extractors BPIManualHTMLParser._extract_single_property,        *)
(*     EastwestBankScraper._extract_property_from_block and BDO's          *)
(*     extract_properties_from_dom                                         *)
(* Each part has its own specification (SpecDedup, ...); the variables of  *)
(* the other parts stay at their initial value under it.                   *)
(***************************************************************************)
EXTENDS Integers, Sequences, FiniteSets, TLC

VARIABLES
    properties,         \* the record list handed to a dedup function
    unique_properties,  \* the list the dedup function built
    dedup_pc,           \* "input", or the dedup function that has run
    \* PNBScraper._extract_property_list
    pnb_pc,                  \* "idle", "rows" (inside the loops), "done"
    current_province,
    current_city,
    current_contact_person,
    current_contact_details,
    header,                  \* header of the table being read, or None
    pnb_properties,          \* the local list `properties`
    pnb_returned,            \* what the last finished call returned
    table_no,                \* the table being read (1-based)
    rows_read,               \* history: the rows read in this pass, with their table
    origin,                  \* history: for each record, its index in rows_read
    meta_before,             \* history: an earlier pass read a metadata row
    \* EastwestBankScraper._find_property_blocks
    soup,                    \* the parsed page
    loc_pc,                  \* "call" (called, not yet run), "done" (returned)
    property_blocks,         \* the list being built, returned at "done"
    ran,                     \* history: the methods run, in order
    found,                   \* history: what each method appended
    \* the extractors
    extractor,               \* "bpi", "bdo", "eastwest", or "none"
    container,               \* the fragment (BDO: the list of items) handed over
    extracted,               \* what the extractor returned
    ext_pc,                  \* "call" (called, not yet run), "done" (returned)
    \* EastwestBankScraper.scrape
    site,                    \* what arun gives for each listing page
    detail,                  \* the address each detail page shows
    ew_pc,                   \* position in scrape / _extract_property_list
    page,                    \* the local `page`
    ew_blocks,               \* property_blocks of the current page
    block_no,                \* the block being extracted (1-based)
    ew_properties,           \* the local list `properties`
    ew_unique_properties,    \* the local list `unique_properties`
    ew_written,              \* the output file has been written
    ew_saved,                \* the content of the output file
    ew_returned,             \* what scrape() returned
    phases,                  \* history: the steps of the run, with their page
    \* MetrobankScraper._process_table
    table,                   \* the table handed to _process_table
    metro_pc,                \* "call" (called, not yet run), "done" (returned)
    header_row_index,        \* the header row found (1-based, 0 for none)
    metro_properties,        \* the list _process_table returned
    metro_origin,            \* history: for each record, the index of its row
    \* BPIManualHTMLParser.run
    html_files,              \* the files of the directory, in glob order
    bpi_pc,                  \* "idle", "files", "parsed", "summary", "done"
    file_no,                 \* the file the loop is at
    all_properties,          \* all_properties of parse_all_html_files
    output_written,          \* the output file has been written
    output_file,             \* the list last written to the output file
    bpi_returned,            \* what run() returned
    bpi_runs,                \* the number of calls of run() started
    first_run,               \* history: the outcome of the first call
    \* BaseBankScraper.scrape
    extracted_list,          \* what _extract_property_list returns
    max_results,             \* self.max_results: None, or an integer
    detail_pages,            \* what _extract_property_details gives per url
    base_pc,                 \* "idle", "items", "done"
    base_properties,         \* properties after the truncation
    detailed_properties,     \* detailed_properties of scrape()
    detail_fetches,          \* history: the items a detail page was fetched for
    normalize_inputs,        \* history: the mappings handed to _normalize_data
    base_written,            \* _save_results has been called
    base_saved,              \* the list handed to _save_results
    base_returned,           \* what scrape() returned
    \* BPIScraper._extract_property_list
    responses,               \* what crawler.arun gives at each attempt
    fetch_pc,                \* "idle", "loop", "done"
    attempt,                 \* the loop variable of `for attempt in range(3)`
    fetch_log,               \* history: the attempts at which a fetch was made
    property_links,          \* what the function returned
    \* SecurityBankPDFScraper._extract_property_list, the line parser
    sec_lines,               \* table_content.split('\n'), each line stripped
    sec_pc,                  \* "idle", "loop", "done"
    sec_line_no,             \* the lines of sec_lines handled so far
    current_property,        \* the record in hand
    current_description_lines, \* its description lines
    sec_properties,          \* the list `properties` of emitted records
    sec_returned,            \* the filtered list
    \* ConsolidatedScraper.scrape_multiple_banks and main.scrape_multiple_banks
    bank_ids,                \* the requested bank ids
    program,                 \* "consolidated" or "main"
    cons_pc,                 \* "idle", "loop", "script", "done"
    bank_no,                 \* the ids of bank_ids handled so far
    running,                 \* the positions whose child process is running
    results,                 \* the dict `results`
    handled,                 \* history: each bank handled and how it ended
    successful,              \* the success count of the summary
    total                    \* the total of the summary, len(bank_ids)

dedupVars == <<properties, unique_properties, dedup_pc>>
pnbVars == <<pnb_pc, current_province, current_city, current_contact_person,
             current_contact_details, header, pnb_properties, pnb_returned,
             table_no, rows_read, origin, meta_before>>
locVars == <<soup, loc_pc, property_blocks, ran, found>>
extVars == <<extractor, container, extracted, ext_pc>>
ewVars == <<site, detail, ew_pc, page, ew_blocks, block_no, ew_properties,
            ew_unique_properties, ew_written, ew_saved, ew_returned, phases>>
metroVars == <<table, metro_pc, header_row_index, metro_properties,
               metro_origin>>
bpiRunVars == <<html_files, bpi_pc, file_no, all_properties, output_written,
                output_file, bpi_returned, bpi_runs, first_run>>
baseVars == <<extracted_list, max_results, detail_pages, base_pc,
              base_properties, detailed_properties, detail_fetches,
              normalize_inputs, base_written, base_saved, base_returned>>
fetchVars == <<responses, fetch_pc, attempt, fetch_log, property_links>>
secVars == <<sec_lines, sec_pc, sec_line_no, current_property,
             current_description_lines, sec_properties, sec_returned>>
consVars == <<bank_ids, program, cons_pc, bank_no, running, results, handled,
              successful, total>>
moreVars == <<baseVars, fetchVars, secVars, consVars>>
vars == <<dedupVars, pnbVars, locVars, extVars, ewVars, metroVars, bpiRunVars,
          moreVars>>
notEwVars == <<dedupVars, pnbVars, locVars, extVars, metroVars, bpiRunVars,
               moreVars>>
firstVars == <<dedupVars, pnbVars, locVars, extVars, ewVars, metroVars,
               bpiRunVars>>
notBaseVars == <<firstVars, fetchVars, secVars, consVars>>
notFetchVars == <<firstVars, baseVars, secVars, consVars>>
notSecVars == <<firstVars, baseVars, fetchVars, consVars>>
notConsVars == <<firstVars, baseVars, fetchVars, secVars>>

\* The 'not available' sentinel string.
NA == "NA"

\* Python's dict.get(key, default).
Get(prop, key, default) == IF key \in DOMAIN prop THEN prop[key] ELSE default

\* Python truthiness of a string together with the != 'NA' test.
HasValue(s) == s /= "" /\ s /= NA

\* The i-th partial application of a left fold of Step over the list.
RECURSIVE FoldLeft(_, _, _, _)
FoldLeft(Step(_, _), st, list, i) ==
    IF i > Len(list) THEN st ELSE FoldLeft(Step, Step(st, list[i]), list, i + 1)

(***************************************************************************)
(* Deduplication                                                           *)
(***************************************************************************)

\* Longest record list handed to a dedup function.
MaxProps == 3

\* Values of the identity fields: empty, the sentinel, a listing id, and a value
\* that holds the separator of the Eastwest key string.
KeyVals == {"", NA, "X-123", "X-123|X-123"}

\* Records of the BPI manual parser (search-result records, and detail-page
\* records, which carry neither property_id nor detail_url) and of the Eastwest
\* scraper; `row` is the position of the record in the input list (its
\* provenance).
BpiChoices == (KeyVals \X KeyVals) \cup {<<"detail">>}
EwChoices == KeyVals \X KeyVals

BpiRecord(c, i) ==
    IF c = <<"detail">> THEN [full_address |-> NA, row |-> i]
    ELSE [property_id |-> c[1], detail_url |-> c[2], row |-> i]

EwRecord(c, i) == [property_no |-> c[1], url |-> c[2], row |-> i]

\* Mutant of SaveStep: the detail_url is tried before the property_id.
SaveStep_UrlFirst(st, prop) ==
    LET prop_id == Get(prop, "property_id", "")
        detail_url == Get(prop, "detail_url", "")
    IN  IF HasValue(detail_url)
        THEN IF detail_url \notin st.seen_urls
             THEN [st EXCEPT !.seen_urls = @ \cup {detail_url},
                             !.unique_properties = Append(@, prop)]
             ELSE st
        ELSE IF HasValue(prop_id)
        THEN IF prop_id \notin st.seen_ids
             THEN [st EXCEPT !.seen_ids = @ \cup {prop_id},
                             !.unique_properties = Append(@, prop)]
             ELSE st
        ELSE [st EXCEPT !.unique_properties = Append(@, prop)]

\* Mutant of SaveStep: an empty or 'NA' property_id is remembered like any id.
SaveStep_SentinelIsKey(st, prop) ==
    LET prop_id == Get(prop, "property_id", "")
    IN  IF prop_id \notin st.seen_ids
        THEN [st EXCEPT !.seen_ids = @ \cup {prop_id},
                        !.unique_properties = Append(@, prop)]
        ELSE st

\* Mutant of SaveStep: a repeated property_id replaces the records kept so far
\* with that id (last seen wins).
SaveStep_LastWins(st, prop) ==
    LET prop_id == Get(prop, "property_id", "")
        others == SelectSeq(st.unique_properties,
                            LAMBDA p : Get(p, "property_id", "") /= prop_id)
    IN  IF HasValue(prop_id)
        THEN [st EXCEPT !.seen_ids = @ \cup {prop_id},
                        !.unique_properties = Append(others, prop)]
        ELSE [st EXCEPT !.unique_properties = Append(@, prop)]

\* Mutant of SaveStep: ids and urls share one seen set.
SaveStep_SharedSeen(st, prop) ==
    LET prop_id == Get(prop, "property_id", "")
        detail_url == Get(prop, "detail_url", "")
        key == IF HasValue(prop_id) THEN prop_id ELSE detail_url
    IN  IF HasValue(key)
        THEN IF key \notin st.seen_ids \cup st.seen_urls
             THEN [st EXCEPT !.seen_ids = @ \cup {key},
                             !.seen_urls = @ \cup {key},
                             !.unique_properties = Append(@, prop)]
             ELSE st
        ELSE [st EXCEPT !.unique_properties = Append(@, prop)]

\* One iteration of the loop of save_properties.
SaveStep(st, prop) ==
    LET prop_id == Get(prop, "property_id", "")
        detail_url == Get(prop, "detail_url", "")
    IN  IF HasValue(prop_id)
        THEN IF prop_id \notin st.seen_ids
             THEN [st EXCEPT !.seen_ids = @ \cup {prop_id},
                             !.unique_properties = Append(@, prop)]
             ELSE st
        ELSE IF HasValue(detail_url)
        THEN IF detail_url \notin st.seen_urls
             THEN [st EXCEPT !.seen_urls = @ \cup {detail_url},
                             !.unique_properties = Append(@, prop)]
             ELSE st
        ELSE [st EXCEPT !.unique_properties = Append(@, prop)]

\* The list save_properties writes to the output file.
SaveUnique(props) ==
    FoldLeft(SaveStep,
             [unique_properties |-> <<>>, seen_ids |-> {}, seen_urls |-> {}],
             props, 1).unique_properties

\* The key string _remove_duplicates builds for a record.
EwKey(prop) == Get(prop, "property_no", "") \o "|" \o Get(prop, "url", "")

\* Mutant of RemoveStep: a key is only remembered within the page of its
\* record.
RemoveStep_PerPage(st, prop) ==
    LET key == <<EwKey(prop), Get(prop, "page", 0)>>
    IN  IF key \notin st.seen
        THEN [unique_properties |-> Append(st.unique_properties, prop),
              seen |-> st.seen \cup {key}]
        ELSE st

\* One iteration of the loop of _remove_duplicates.
RemoveStep(st, prop) ==
    LET key == EwKey(prop)
    IN  IF key \notin st.seen
        THEN [unique_properties |-> Append(st.unique_properties, prop),
              seen |-> st.seen \cup {key}]
        ELSE st

\* The list _remove_duplicates returns.
RemoveDuplicates(props) ==
    FoldLeft(RemoveStep, [unique_properties |-> <<>>, seen |-> {}],
             props, 1).unique_properties

DedupIdle ==
    /\ properties = <<>>
    /\ unique_properties = <<>>
    /\ dedup_pc = "input"

DedupInit ==
    /\ \E n \in 0..MaxProps :
           \/ \E f \in [1..n -> BpiChoices] :
                  properties = [i \in 1..n |-> BpiRecord(f[i], i)]
           \/ \E f \in [1..n -> EwChoices] :
                  properties = [i \in 1..n |-> EwRecord(f[i], i)]
    /\ unique_properties = <<>>
    /\ dedup_pc = "input"

save_properties ==
    /\ dedup_pc = "input"
    /\ \A i \in 1..Len(properties) : "property_no" \notin DOMAIN properties[i]
    /\ unique_properties' = SaveUnique(properties)
    /\ dedup_pc' = "save_properties"
    /\ UNCHANGED <<properties, pnbVars, locVars, extVars, ewVars, metroVars, bpiRunVars, moreVars>>

remove_duplicates ==
    /\ dedup_pc = "input"
    /\ \A i \in 1..Len(properties) : "property_no" \in DOMAIN properties[i]
    /\ unique_properties' = RemoveDuplicates(properties)
    /\ dedup_pc' = "remove_duplicates"
    /\ UNCHANGED <<properties, pnbVars, locVars, extVars, ewVars, metroVars, bpiRunVars, moreVars>>

DedupNext ==
    \/ save_properties
    \/ remove_duplicates

(***************************************************************************)
(* Strings as token lists: a token is a run of ordinary characters, one    *)
(* separator "|" or one blank " ".  None is Python's None.                 *)
(***************************************************************************)

None == <<"<None>">>

\* Python truthiness of a table cell (None and '' are falsy).
Truthy(cell) == cell /= None /\ cell /= <<>>

\* str.strip(): blanks removed at both ends.
RECURSIVE LStrip(_)
LStrip(s) == IF s /= <<>> /\ Head(s) = " " THEN LStrip(Tail(s)) ELSE s

RECURSIVE RStrip(_)
RStrip(s) ==
    IF s /= <<>> /\ s[Len(s)] = " " THEN RStrip(SubSeq(s, 1, Len(s) - 1)) ELSE s

Strip(s) == RStrip(LStrip(s))

\* str.split(sep): the pieces between the separators (always at least one).
RECURSIVE SplitFrom(_, _, _, _)
SplitFrom(s, sep, i, piece) ==
    IF i > Len(s) THEN <<piece>>
    ELSE IF s[i] = sep THEN <<piece>> \o SplitFrom(s, sep, i + 1, <<>>)
    ELSE SplitFrom(s, sep, i + 1, Append(piece, s[i]))

Split(s, sep) == SplitFrom(s, sep, 1, <<>>)

\* `word in str(cell)` for a word that is one token; str(None) is 'None'.
Contains(cell, word) ==
    cell /= None /\ \E i \in 1..Len(cell) : cell[i] = word

(***************************************************************************)
(* PNBScraper._extract_property_list                                       *)
(***************************************************************************)

\* Rows read in one pass, tables per pass.
MaxRows == 4
MaxTables == 2

\* The rows a table may hold (two columns).
HeaderRow == << <<"Title_ID">>, <<"Province">> >>
MetaRow1 == << <<"Laguna", "|", "Calamba", "|", "Juan", "|", "09171234567">>, None >>
MetaRow2 == << <<"Cebu", "|", " ", "Mandaue">>, <<>> >>
DataRow1 == << <<"T-1">>, <<"Batangas">> >>
DashRow == << <<"-">>, <<"Bohol">> >>
OffsetRow == << None, <<"Rizal", "|", "Taytay">> >>

RowPool == {HeaderRow, MetaRow1, MetaRow2, DataRow1, DashRow, OffsetRow}

main_fields ==
    {<<"Title_ID">>, <<"Title/CR No.">>, <<"Location/Description">>,
     <<"Property use">>, <<"Area">>, <<"Floor Area">>, <<"Minimum Price">>,
     <<"# of Titles">>, <<"Status">>}

\* row and any("Title_ID" in str(cell) for cell in row)
IsTitleRow(row) ==
    Len(row) > 0 /\ \E i \in 1..Len(row) : Contains(row[i], <<"Title_ID">>[1])

\* [str(cell).strip() if cell else "" for cell in row]
HeaderOf(row) ==
    [i \in 1..Len(row) |-> IF Truthy(row[i]) THEN Strip(row[i]) ELSE <<>>]

\* len([cell for cell in row if cell and str(cell).strip() != ""])
NonEmptyCells(row) ==
    Cardinality({i \in 1..Len(row) : Truthy(row[i]) /\ Strip(row[i]) /= <<>>})

\* header and row and exactly one non-empty cell
IsMetaRow(hdr, row) ==
    /\ hdr /= None /\ Len(hdr) > 0
    /\ Len(row) > 0
    /\ NonEmptyCells(row) = 1

\* all(cell is None or str(cell).strip() == '' for cell in row)
AllBlank(row) ==
    \A i \in 1..Len(row) : row[i] = None \/ Strip(row[i]) = <<>>

\* Mutant of MetaOf: a part the row does not supply keeps the current value.
MetaOf_KeepMissing(row) ==
    LET meta == [k \in 1..Len(Split(row[1], "|")) |-> Strip(Split(row[1], "|")[k])]
    IN  [province |-> IF Len(meta) > 0 THEN meta[1] ELSE current_province,
         city |-> IF Len(meta) > 1 THEN meta[2] ELSE current_city,
         contact_person |-> IF Len(meta) > 2 THEN meta[3]
                            ELSE current_contact_person,
         contact_details |-> IF Len(meta) > 3 THEN meta[4]
                             ELSE current_contact_details]

\* The four carry-over fields a metadata row sets.
MetaOf(row) ==
    LET meta == [k \in 1..Len(Split(row[1], "|")) |-> Strip(Split(row[1], "|")[k])]
    IN  [province |-> IF Len(meta) > 0 THEN meta[1] ELSE None,
         city |-> IF Len(meta) > 1 THEN meta[2] ELSE None,
         contact_person |-> IF Len(meta) > 2 THEN meta[3] ELSE None,
         contact_details |-> IF Len(meta) > 3 THEN meta[4] ELSE None]

\* list(row) + [None] * (len(header) - len(row))
Padded(hdr, row) ==
    row \o [i \in 1..(IF Len(hdr) > Len(row) THEN Len(hdr) - Len(row) ELSE 0)
                |-> None]

\* dict(zip(header, padded_row)): of equal header names the last one wins.
ZipDict(hdr, padded_row) ==
    LET n == IF Len(hdr) < Len(padded_row) THEN Len(hdr) ELSE Len(padded_row)
        Last(k) == CHOOSE i \in 1..n :
                       hdr[i] = k /\ \A j \in (i + 1)..n : hdr[j] /= k
    IN  [k \in {hdr[i] : i \in 1..n} |-> padded_row[Last(k)]]

\* Mutant of AttachMetadata: a column of the row named like a carry-over field
\* keeps the row's own cell.
AttachMetadata_KeepRowCells(prop, meta) ==
    [k \in DOMAIN prop \cup {<<"Province">>, <<"City/Municipality">>,
                             <<"Contact Person">>, <<"Contact Details">>} |->
        IF k \in DOMAIN prop THEN prop[k]
        ELSE IF k = <<"Province">> THEN meta.province
        ELSE IF k = <<"City/Municipality">> THEN meta.city
        ELSE IF k = <<"Contact Person">> THEN meta.contact_person
        ELSE meta.contact_details]

\* prop["Province"] = current_province, ... (the four assignments).
AttachMetadata(prop, meta) ==
    [k \in DOMAIN prop \cup {<<"Province">>, <<"City/Municipality">>,
                             <<"Contact Person">>, <<"Contact Details">>} |->
        IF k = <<"Province">> THEN meta.province
        ELSE IF k = <<"City/Municipality">> THEN meta.city
        ELSE IF k = <<"Contact Person">> THEN meta.contact_person
        ELSE IF k = <<"Contact Details">> THEN meta.contact_details
        ELSE prop[k]]

\* any(prop.get(f) not in [None, "", "-"] for f in main_fields)
HasMainField(prop) ==
    \E f \in main_fields :
        Get(prop, f, None) \notin {None, <<>>, <<"-">>}

\* The carry-over fields as they stand.
CurrentMeta ==
    [province |-> current_province, city |-> current_city,
     contact_person |-> current_contact_person,
     contact_details |-> current_contact_details]

\* Mutant of InitialMeta: a pass starts with the fields as the last pass left
\* them (the fields kept on the scraper object).
InitialMeta_Stale == CurrentMeta

\* current_province = None ... current_contact_details = None at the start of
\* a pass.
InitialMeta ==
    [province |-> None, city |-> None, contact_person |-> None,
     contact_details |-> None]

\* row[0].split("|") on a row whose first cell is None raises AttributeError.
RowRaises(hdr, row) ==
    ~IsTitleRow(row) /\ IsMetaRow(hdr, row) /\ row[1] = None

SetMeta(meta) ==
    /\ current_province' = meta.province
    /\ current_city' = meta.city
    /\ current_contact_person' = meta.contact_person
    /\ current_contact_details' = meta.contact_details

PnbIdle ==
    /\ pnb_pc = "idle"
    /\ current_province = None /\ current_city = None
    /\ current_contact_person = None /\ current_contact_details = None
    /\ header = None
    /\ pnb_properties = <<>>
    /\ pnb_returned = None
    /\ table_no = 0
    /\ rows_read = <<>>
    /\ origin = <<>>
    /\ meta_before = FALSE

\* A call of _extract_property_list up to the first page: properties = [],
\* the PDF is opened, the carry-over fields are set to None.
StartPass ==
    /\ pnb_pc \in {"idle", "done"}
    /\ pnb_pc' = "rows"
    /\ SetMeta(InitialMeta)
    /\ header' = None
    /\ pnb_properties' = <<>>
    /\ table_no' = 0
    /\ rows_read' = <<>>
    /\ origin' = <<>>
    /\ meta_before' =
           (meta_before \/ \E i \in 1..Len(rows_read) : rows_read[i].meta)
    /\ pnb_returned' = None
    /\ UNCHANGED <<dedupVars, locVars, extVars, ewVars, metroVars, bpiRunVars, moreVars>>

\* for table in tables: header = None
NextTable ==
    /\ pnb_pc = "rows"
    /\ table_no < MaxTables
    /\ table_no' = table_no + 1
    /\ header' = None
    /\ UNCHANGED <<pnb_pc, current_province, current_city,
                   current_contact_person, current_contact_details,
                   pnb_properties, pnb_returned, rows_read, origin,
                   meta_before, dedupVars, locVars, extVars, ewVars, metroVars, bpiRunVars, moreVars>>

Read(row, asMeta) ==
    rows_read' = Append(rows_read, [table |-> table_no, row |-> row, meta |-> asMeta])

\* One iteration of `for i, row in enumerate(table)`: the header row.
ReadTitleRow(row) ==
    /\ IsTitleRow(row)
    /\ header' = HeaderOf(row)
    /\ Read(row, FALSE)
    /\ UNCHANGED <<pnb_pc, current_province, current_city,
                   current_contact_person, current_contact_details,
                   pnb_properties, pnb_returned, origin>>

\* One iteration: a metadata row replaces the carry-over fields.
ReadMetaRow(row) ==
    /\ ~IsTitleRow(row)
    /\ IsMetaRow(header, row)
    /\ ~RowRaises(header, row)
    /\ SetMeta(MetaOf(row))
    /\ Read(row, TRUE)
    /\ UNCHANGED <<pnb_pc, header, pnb_properties, pnb_returned, origin>>

\* One iteration: the row raises; the handler around the whole pass returns [].
ReadRowRaises(row) ==
    /\ RowRaises(header, row)
    /\ pnb_pc' = "done"
    /\ pnb_returned' = <<>>
    /\ Read(row, FALSE)
    /\ UNCHANGED <<current_province, current_city, current_contact_person,
                   current_contact_details, header, pnb_properties, origin>>

\* One iteration: a row skipped (no header yet, empty, or equal to the header).
ReadSkippedRow(row) ==
    /\ ~IsTitleRow(row)
    /\ ~IsMetaRow(header, row)
    /\ \/ header = None \/ Len(header) = 0
       \/ Len(row) = 0
       \/ AllBlank(row)
       \/ row = header
    /\ Read(row, FALSE)
    /\ UNCHANGED <<pnb_pc, current_province, current_city,
                   current_contact_person, current_contact_details, header,
                   pnb_properties, pnb_returned, origin>>

\* One iteration: a data row becomes a record with the metadata attached, and
\* is appended when it has a main field.
ReadDataRow(row) ==
    /\ ~IsTitleRow(row)
    /\ ~IsMetaRow(header, row)
    /\ header /= None /\ Len(header) > 0
    /\ Len(row) > 0
    /\ ~AllBlank(row)
    /\ row /= header
    /\ LET prop == AttachMetadata(ZipDict(header, Padded(header, row)), CurrentMeta)
       IN  IF HasMainField(prop)
           THEN /\ pnb_properties' = Append(pnb_properties, prop)
                /\ origin' = Append(origin, Len(rows_read) + 1)
           ELSE UNCHANGED <<pnb_properties, origin>>
    /\ Read(row, FALSE)
    /\ UNCHANGED <<pnb_pc, current_province, current_city,
                   current_contact_person, current_contact_details, header,
                   pnb_returned>>

ReadRow ==
    /\ pnb_pc = "rows"
    /\ table_no >= 1
    /\ Len(rows_read) < MaxRows
    /\ \E row \in RowPool :
           \/ ReadTitleRow(row)
           \/ ReadMetaRow(row)
           \/ ReadRowRaises(row)
           \/ ReadSkippedRow(row)
           \/ ReadDataRow(row)
    /\ UNCHANGED <<table_no, meta_before, dedupVars, locVars, extVars, ewVars, metroVars, bpiRunVars, moreVars>>

\* The loops are over: return properties.
EndPass ==
    /\ pnb_pc = "rows"
    /\ pnb_pc' = "done"
    /\ pnb_returned' = pnb_properties
    /\ UNCHANGED <<current_province, current_city, current_contact_person,
                   current_contact_details, header, pnb_properties, table_no,
                   rows_read, origin, meta_before, dedupVars, locVars, extVars, ewVars, metroVars, bpiRunVars, moreVars>>

PnbNext ==
    \/ StartPass
    \/ NextTable
    \/ ReadRow
    \/ EndPass

(***************************************************************************)
(* EastwestBankScraper._find_property_blocks                               *)
(*                                                                         *)
(* The page is a tree of elements under <body> (node 0).  Elements 1..n    *)
(* are numbered in document order; each is a <div> or an <li>, and may     *)
(* have as direct children one div.content_card-title, one                 *)
(* div.call-to-actions and a number of div.content_card-info-block leaves. *)
(***************************************************************************)

\* Elements of a page below <body>.
MaxNodes == 2

\* len(find_all('div', class_='content_card-info-block')) >= 3
MinInfoBlocks == 3

Tags == {"div", "li"}
InfoCounts == {0, MinInfoBlocks}

Nodes(d) == 1..Len(d.parent)

RECURSIVE AncOrSelf(_, _)
AncOrSelf(d, n) == IF n = 0 THEN {0} ELSE {n} \cup AncOrSelf(d, d.parent[n])

\* Document order: the parent of an element is an element still open when it
\* starts.
WellFormed(d) ==
    /\ \A i \in Nodes(d) : d.parent[i] < i
    /\ \A i \in Nodes(d) : i > 1 => d.parent[i] \in AncOrSelf(d, i - 1)

\* The elements inside element n, n included (its marker children are inside).
Subtree(d, n) == {m \in Nodes(d) : n \in AncOrSelf(d, m)}

\* container.find('div', class_='content_card-title') is not None
HasTitle(d, n) == \E m \in Subtree(d, n) : d.title[m]

\* container.find('div', class_='call-to-actions') is not None
HasCallToActions(d, n) == \E m \in Subtree(d, n) : d.cta[m]

RECURSIVE InfoBlocksFrom(_, _, _)
InfoBlocksFrom(d, n, i) ==
    IF i > Len(d.parent) THEN 0
    ELSE (IF i \in Subtree(d, n) THEN d.info[i] ELSE 0) + InfoBlocksFrom(d, n, i + 1)

\* len(container.find_all('div', class_='content_card-info-block'))
InfoBlocks(d, n) == InfoBlocksFrom(d, n, 1)

\* The elements of 1..n that satisfy Test, in document order.
RECURSIVE InOrder(_, _, _)
InOrder(Test(_), n, i) ==
    IF i > n THEN <<>>
    ELSE (IF Test(i) THEN <<i>> ELSE <<>>) \o InOrder(Test, n, i + 1)

\* Method 1: every div/section/article that holds a title, a call-to-actions
\* and at least three info blocks.
Method1(d) ==
    LET Hit(n) == /\ d.tag[n] = "div"
                  /\ HasTitle(d, n)
                  /\ HasCallToActions(d, n)
                  /\ InfoBlocks(d, n) >= MinInfoBlocks
    IN  InOrder(Hit, Len(d.parent), 1)

\* Mutant of WalkUp: only the direct parent of the marker is tried.
RECURSIVE WalkUp_ParentOnly(_, _, _)
WalkUp_ParentOnly(d, n, other) ==
    IF n = 0 THEN 0
    ELSE IF /\ (IF other = "cta" THEN HasCallToActions(d, n) ELSE HasTitle(d, n))
            /\ InfoBlocks(d, n) >= MinInfoBlocks
         THEN n
         ELSE 0

\* The walk `while parent and parent.name != 'body'` from element n upward:
\* the first element that holds the other marker and at least three info
\* blocks, or 0 when <body> is reached.
RECURSIVE WalkUp(_, _, _)
WalkUp(d, n, other) ==
    IF n = 0 THEN 0
    ELSE IF /\ (IF other = "cta" THEN HasCallToActions(d, n) ELSE HasTitle(d, n))
            /\ InfoBlocks(d, n) >= MinInfoBlocks
         THEN n
         ELSE WalkUp(d, d.parent[n], other)

\* The blocks the walks from the given markers append, one per successful walk.
RECURSIVE Walks(_, _, _, _)
Walks(d, marked, other, i) ==
    IF i > Len(d.parent) THEN <<>>
    ELSE (IF marked[i] /\ WalkUp(d, i, other) /= 0
          THEN <<WalkUp(d, i, other)>> ELSE <<>>)
         \o Walks(d, marked, other, i + 1)

\* Method 2: from every content_card-title element upward.
Method2(d) == Walks(d, d.title, "cta", 1)

\* Method 3: from every call-to-actions element upward.
Method3(d) == Walks(d, d.cta, "title", 1)

\* Mutant of NotBlocks: the next method runs whatever was found before.
NotBlocks_Always(blocks) == TRUE

\* `if not property_blocks`
NotBlocks(blocks) == blocks = <<>>

EmptySoup == [parent |-> <<>>, tag |-> <<>>, title |-> <<>>, cta |-> <<>>,
              info |-> <<>>]

LocIdle ==
    /\ soup = EmptySoup
    /\ loc_pc = "done"
    /\ property_blocks = <<>>
    /\ ran = <<>>
    /\ found = <<>>

\* A call of _find_property_blocks(soup): property_blocks = [].
LocInit ==
    /\ \E parent \in [1..MaxNodes -> 0..(MaxNodes - 1)] :
           /\ WellFormed([parent |-> parent])
           /\ \E tag \in [1..MaxNodes -> Tags],
                 title \in [1..MaxNodes -> BOOLEAN],
                 cta \in [1..MaxNodes -> BOOLEAN],
                 info \in [1..MaxNodes -> InfoCounts] :
                  soup = [parent |-> parent, tag |-> tag, title |-> title,
                          cta |-> cta, info |-> info]
    /\ loc_pc = "call"
    /\ property_blocks = <<>>
    /\ ran = <<>>
    /\ found = <<>>

\* _find_property_blocks(soup): the three methods in turn, each later one only
\* `if not property_blocks`, then `return property_blocks`.
find_property_blocks ==
    /\ loc_pc = "call"
    /\ LET blocks1 == Method1(soup)
           run2 == NotBlocks(blocks1)
           blocks2 == IF run2 THEN blocks1 \o Method2(soup) ELSE blocks1
           run3 == NotBlocks(blocks2)
           blocks3 == IF run3 THEN blocks2 \o Method3(soup) ELSE blocks2
       IN  /\ property_blocks' = blocks3
           /\ ran' = <<"method1">> \o (IF run2 THEN <<"method2">> ELSE <<>>)
                                   \o (IF run3 THEN <<"method3">> ELSE <<>>)
           /\ found' = <<Method1(soup)>>
                           \o (IF run2 THEN <<Method2(soup)>> ELSE <<>>)
                           \o (IF run3 THEN <<Method3(soup)>> ELSE <<>>)
    /\ loc_pc' = "done"
    /\ UNCHANGED <<soup, dedupVars, pnbVars, extVars, ewVars, metroVars, bpiRunVars, moreVars>>

LocNext == find_property_blocks

(***************************************************************************)
(* The extractors                                                          *)
(*                                                                         *)
(* Texts are sequences of tokens, as above; an element or attribute that   *)
(* is not there is None.                                                   *)
(***************************************************************************)

\* Sub-elements of one kind in a fragment (info blocks, paragraphs, rows).
MaxParts == 2

\* Items on a BDO listing page.
MaxItems == 1

\* The string 'NA' as a text.
NAText == <<NA>>

\* prop[key] = value
Put(prop, key, value) ==
    [k \in DOMAIN prop \cup {key} |-> IF k = key THEN value ELSE prop[k]]

\* element.get_text(strip=True) of an element with one text node
GetText(text) == Strip(text)

\* str.startswith(word) for a word that is one token
StartsWith(text, word) == text /= <<>> /\ Head(text) = word

\* The tokens that begin an absolute URL.
Origins == {"https://pre-owned-properties.eastwestbanker.com",
            "https://www.buenamano.ph", "https://www.bdo.com.ph"}

(***************************************************************************)
(* EastwestBankScraper._extract_property_from_block                        *)
(***************************************************************************)

\* self.url
EastwestUrl == <<"https://pre-owned-properties.eastwestbanker.com", "/">>

\* The keys of a record the function returns.
EwFields == {"property_name", "property_no", "type", "lot_area", "floor_area",
             "location", "city", "price", "url"}

\* The keys given the 'NA' default at the end.
EwDefaulted == {"property_no", "type", "lot_area", "floor_area", "location",
                "city"}

\* The key an info block's label selects, "" for any other label.
EwFieldOf(label) ==
    CASE label = <<"Property No.">> -> "property_no"
      [] label = <<"Type">> -> "type"
      [] label = <<"Lot Area">> -> "lot_area"
      [] label = <<"Floor Area">> -> "floor_area"
      [] label = <<"Location">> -> "location"
      [] label = <<"City">> -> "city"
      [] OTHER -> ""

\* One turn of `for info_block in info_blocks`.
EwInfoStep(prop, info_block) ==
    IF info_block.label /= None /\ info_block.text /= None
        /\ EwFieldOf(GetText(info_block.label)) /= ""
    THEN Put(prop, EwFieldOf(GetText(info_block.label)), GetText(info_block.text))
    ELSE prop

\* The tokens re.sub(r'[^\d,\.]', '', price_text) keeps whole.
PriceTokens == {"1,500,000.00"}
IsPriceToken(t) == t \in PriceTokens

\* The price read from call-to-actions > content_card-price.
EwPrice(cta) ==
    IF cta.present /\ cta.price /= None
    THEN LET price_clean == SelectSeq(GetText(cta.price), IsPriceToken)
         IN  IF price_clean /= <<>> THEN price_clean ELSE NAText
    ELSE NAText

\* urllib.parse.urljoin(base, href) for a base that ends in '/'.
UrlJoin(base, href) ==
    IF href = <<>> THEN base
    ELSE IF Head(href) \in Origins THEN href
    ELSE IF Head(href) = "/" THEN <<Head(base)>> \o href
    ELSE base \o href

\* The URL read from the link in call-to-actions.
EwUrl(cta) ==
    IF cta.present /\ cta.href /= None
    THEN UrlJoin(EastwestUrl, cta.href)
    ELSE EastwestUrl

\* `if 'x' not in prop: prop['x'] = "NA"` for the six defaulted keys.
EwDefaults(prop) ==
    [k \in DOMAIN prop \cup EwDefaulted |->
        IF k \in DOMAIN prop THEN prop[k] ELSE NAText]

\* _extract_property_from_block(block): the record, or None.  title_text is
\* assigned only when the title element exists; reading it otherwise raises
\* UnboundLocalError, which the function's handler turns into None.
extract_property_from_block(block) ==
    IF block.info_blocks = <<>> THEN None
    ELSE
      LET title_bound == block.title /= None
          title_text == GetText(block.title)
          named == [property_name |-> IF title_bound THEN title_text ELSE NAText]
          read == FoldLeft(EwInfoStep, named, block.info_blocks, 1)
          no_number == \/ "property_no" \notin DOMAIN read
                       \/ read["property_no"] = <<>>
      IN  IF no_number /\ ~title_bound THEN None
          ELSE
            LET numbered ==
                    IF ~no_number THEN read
                    ELSE IF title_text /= <<>>
                         THEN Put(read, "property_no", Split(title_text, " ")[1])
                         ELSE Put(read, "property_no", NAText)
                priced == Put(numbered, "price", EwPrice(block.cta))
                linked == Put(priced, "url", EwUrl(block.cta))
            IN  EwDefaults(linked)

(***************************************************************************)
(* BPIManualHTMLParser._extract_single_property                            *)
(***************************************************************************)

\* The keys of the record the function initialises.
BpiFields == {"property_id", "property_type", "title", "location", "address",
              "price", "image_url", "detail_url", "lot_area", "floor_area",
              "bedrooms", "bathrooms", "property_classification",
              "special_concerns", "sales_advisor", "contact_no",
              "alternate_contact", "alternate_contact_no"}

\* re.search(r'/property/([^/]+)', detail_url): the segment after the first
\* '/property/', or None.
PropertyIdOf(url) ==
    LET Hits == {i \in 1..(Len(url) - 3) :
                    /\ url[i] = "/" /\ url[i + 1] = "property"
                    /\ url[i + 2] = "/" /\ url[i + 3] /= "/"}
    IN  IF Hits = {} THEN None
        ELSE <<url[(CHOOSE i \in Hits : \A j \in Hits : i <= j) + 3]>>

\* Mutant of TypeOf: the prefix is not trimmed.
TypeOf_Untrimmed(title_text) ==
    IF Split(title_text, "(")[1] = <<>> THEN None
    ELSE Split(title_text, "(")[1]

\* re.match(r'^([^(]+)', title_text), group(1).strip(): the text before the
\* first '(', or None when the title starts with '(' or is empty.
TypeOf(title_text) ==
    IF Split(title_text, "(")[1] = <<>> THEN None
    ELSE Strip(Split(title_text, "(")[1])

\* The link in the h4: detail_url, property_id, title, property_type.
BpiLink(data, link) ==
    IF ~link.present THEN data
    ELSE
      LET detail_url == IF link.href = None THEN <<>> ELSE link.href
          d1 == IF detail_url = <<>> THEN data
                ELSE LET d == Put(data, "detail_url", detail_url)
                     IN  IF PropertyIdOf(detail_url) = None THEN d
                         ELSE Put(d, "property_id", PropertyIdOf(detail_url))
          title_text == GetText(link.text)
          d2 == Put(d1, "title", title_text)
      IN  IF TypeOf(title_text) = None THEN d2
          ELSE Put(d2, "property_type", TypeOf(title_text))

\* The img element: relative sources made absolute.
BpiImage(data, img) ==
    IF ~img.present \/ img.src = None \/ img.src = <<>> THEN data
    ELSE IF StartsWith(img.src, "./") THEN Put(data, "image_url", Tail(img.src))
    ELSE IF ~(Head(img.src) \in Origins)
         THEN Put(data, "image_url", <<"https://www.buenamano.ph", "/">> \o img.src)
    ELSE Put(data, "image_url", img.src)

\* str.replace(word, ''): every occurrence of the token removed.
Remove(text, word) ==
    LET Other(t) == t /= word IN SelectSeq(text, Other)

\* One turn of `for p in p_elements`.
BpiParagraphStep(data, p) ==
    LET text == GetText(p)
    IN  IF StartsWith(text, "Location:")
        THEN Put(data, "location", Strip(Remove(text, "Location:")))
        ELSE IF StartsWith(text, "Price:")
        THEN Put(data, "price", Strip(Remove(text, "Price:")))
        ELSE IF text /= <<>> /\ data["address"] = NAText
        THEN Put(data, "address", text)
        ELSE data

\* _extract_single_property(container)
extract_single_property(c) ==
    LET property_data == [k \in BpiFields |-> NAText]
        linked == BpiLink(property_data, c.link)
        pictured == BpiImage(linked, c.img)
    IN  FoldLeft(BpiParagraphStep, pictured, c.paragraphs, 1)

(***************************************************************************)
(* extract_properties_from_dom (BDO)                                       *)
(***************************************************************************)

\* The keys of the record built for every item.
BdoFields == {"Property_address", "Property_short_description",
              "Advertised_price", "Type", "Lot_area", "Floor_area",
              "Offer_type", "Additional_information", "Detailed_info"}

\* The empty mapping `{}`.
EmptyMapping == <<>>

\* `word in icon_href` for a word that is one token
InHref(word, icon_href) == \E i \in 1..Len(icon_href) : icon_href[i] = word

\* One turn of `for row in rows`; a missing icon, a missing xlink:href or a
\* missing .city element raises, and the row is skipped.
BdoRowStep(prop, row) ==
    IF row.icon = None \/ row.city = None THEN prop
    ELSE
      LET icon_href == row.icon
          text_value == Strip(row.city)
      IN  IF InHref("tag_outline", icon_href) \/ InHref("price", icon_href)
          THEN Put(prop, "Advertised_price", text_value)
          ELSE IF InHref("business_building-outline", icon_href)
          THEN (IF prop["Floor_area"] = NAText
                THEN Put(prop, "Floor_area", text_value)
                ELSE Put(prop, "Lot_area", text_value))
          ELSE IF InHref("home_loan-outline", icon_href)
                  \/ InHref("home-outline", icon_href)
          THEN Put(prop, "Type", text_value)
          ELSE IF InHref("location", icon_href) \/ InHref("map", icon_href)
          THEN (IF prop["Property_short_description"] = NAText
                THEN Put(prop, "Property_short_description", text_value)
                ELSE Put(prop, "Additional_information", text_value))
          ELSE prop

\* The body of `for item in items`.
BdoItem(item) ==
    LET prop == [k \in BdoFields |->
                    IF k = "Offer_type" THEN <<"Negotiated Sale">>
                    ELSE IF k = "Detailed_info" THEN EmptyMapping
                    ELSE NAText]
        titled == IF item.title = None THEN prop
                  ELSE Put(prop, "Property_address", Strip(item.title))
        read == FoldLeft(BdoRowStep, titled, item.rows, 1)
    IN  IF item.href = None \/ item.href = <<>> THEN read
        ELSE Put(read, "Additional_information", item.href)

\* extract_properties_from_dom(driver): one record per item.
extract_properties_from_dom(items) ==
    [i \in 1..Len(items) |-> BdoItem(items[i])]

(***************************************************************************)
(* The fragments handed to the extractors                                  *)
(***************************************************************************)

EwTitles == {None, <<>>, <<" ", "D-356-00562", " ", "Residential">>}

EwInfoPool ==
    {[label |-> <<"Property No.">>, text |-> <<"D-1">>],
     [label |-> <<"Property No.">>, text |-> <<" ">>],
     [label |-> <<"Type">>, text |-> <<"Lot">>],
     [label |-> None, text |-> <<"Lot">>]}

EwActions ==
    {[present |-> FALSE, price |-> None, href |-> None],
     [present |-> TRUE, price |-> None, href |-> None],
     [present |-> TRUE, price |-> <<"TBA">>, href |-> <<>>],
     [present |-> TRUE, price |-> <<"PhP", " ", "1,500,000.00">>,
      href |-> <<"/", "property", "/", "D-1">>]}

BpiLinks ==
    {[present |-> FALSE, href |-> None, text |-> <<>>],
     [present |-> TRUE, href |-> None, text |-> <<>>],
     [present |-> TRUE, href |-> <<"https://www.buenamano.ph", "/", "listing">>,
      text |-> <<"(", "03997-O-247", ")">>],
     [present |-> TRUE,
      href |-> <<"https://www.buenamano.ph", "/", "property", "/", "03997-O-247">>,
      text |-> <<"House & Lot", " ", "(", "03997-O-247", ")">>],
     [present |-> TRUE,
      href |-> <<"https://www.buenamano.ph", "/", "property", "/", "8841">>,
      text |-> <<"House & Lot", " ", "(", "03997-O-247", ")">>],
     [present |-> TRUE,
      href |-> <<"https://www.buenamano.ph", "/", "property", "/", "8842">>,
      text |-> <<"Vacant Lot">>]}

BpiImages ==
    {[present |-> FALSE, src |-> None],
     [present |-> TRUE, src |-> <<"./", "img", "/", "a.jpg">>],
     [present |-> TRUE, src |-> <<"img", "/", "a.jpg">>],
     [present |-> TRUE, src |-> <<"https://www.buenamano.ph", "/", "a.jpg">>]}

BpiParagraphs ==
    {<<"Location:", " ", "Makati">>, <<"Price:", " ", "1,000">>,
     <<"12 Main St">>, <<>>}

BdoRows ==
    {[icon |-> <<"#", "tag_outline">>, city |-> <<"1,000">>],
     [icon |-> <<"#", "business_building-outline">>, city |-> <<"50 sqm">>],
     [icon |-> <<"#", "location">>, city |-> <<"Makati">>],
     [icon |-> None, city |-> <<"Makati">>]}

BdoTitles == {None, <<"12 Main St">>}

BdoHrefs == {None, <<>>, <<"https://www.bdo.com.ph", "/", "details-page">>}

ExtIdle ==
    /\ extractor = "none"
    /\ container = <<>>
    /\ extracted = <<>>
    /\ ext_pc = "done"

\* A fragment has been located and the extractor is called with it.
ExtInit ==
    /\ \/ /\ extractor = "eastwest"
          /\ \E title \in EwTitles, cta \in EwActions, n \in 0..MaxParts :
                 \E info_blocks \in [1..n -> EwInfoPool] :
                     container = [title |-> title, info_blocks |-> info_blocks,
                                  cta |-> cta]
       \/ /\ extractor = "bpi"
          /\ \E link \in BpiLinks, img \in BpiImages, n \in 0..MaxParts :
                 \E paragraphs \in [1..n -> BpiParagraphs] :
                     container = [link |-> link, img |-> img,
                                  paragraphs |-> paragraphs]
       \/ /\ extractor = "bdo"
          /\ \E m \in 0..MaxItems :
                 \E title \in [1..m -> BdoTitles], href \in [1..m -> BdoHrefs],
                    rows \in [1..m -> UNION {[1..n -> BdoRows] : n \in 0..MaxParts}] :
                     container = [i \in 1..m |->
                                     [title |-> title[i], rows |-> rows[i],
                                      href |-> href[i]]]
    /\ extracted = <<>>
    /\ ext_pc = "call"

Returns(value) ==
    /\ extracted' = value
    /\ ext_pc' = "done"
    /\ UNCHANGED <<extractor, container, dedupVars, pnbVars, locVars, ewVars, metroVars, bpiRunVars, moreVars>>

ExtractEastwest ==
    /\ ext_pc = "call" /\ extractor = "eastwest"
    /\ Returns(extract_property_from_block(container))

ExtractBpi ==
    /\ ext_pc = "call" /\ extractor = "bpi"
    /\ Returns(extract_single_property(container))

ExtractBdo ==
    /\ ext_pc = "call" /\ extractor = "bdo"
    /\ Returns(extract_properties_from_dom(container))

ExtNext ==
    \/ ExtractEastwest
    \/ ExtractBpi
    \/ ExtractBdo

(***************************************************************************)
(* EastwestBankScraper.scrape and _extract_property_list                   *)
(*                                                                         *)
(* The site is what crawler.arun gives for each listing page and for each  *)
(* detail page; it is fixed for the length of a run.                       *)
(***************************************************************************)

\* `while page <= max_pages` (21 in the code).
max_pages == 3

\* self.url as one string.
self_url == "https://pre-owned-properties.eastwestbanker.com/"

\* What _extract_property_from_block makes of a located block: a record with
\* this property_no and url, or None (yields = FALSE).
Block(no, url) == [property_no |-> no, url |-> url, yields |-> TRUE]
NoRecordBlock == [property_no |-> "", url |-> "", yields |-> FALSE]

\* A listing page: arun raises, result.html is empty, or the blocks that
\* _find_property_blocks locates in the HTML.
Html(blocks) == [status |-> "html", blocks |-> blocks]

PagePool ==
    {[status |-> "raises", blocks |-> <<>>],
     [status |-> "no html", blocks |-> <<>>],
     Html(<<>>),
     Html(<<Block("D-1", "/d-1")>>),
     Html(<<Block("D-1", "/d-1"), Block("D-2", "/d-2")>>),
     Html(<<Block("D-2", "/d-2"), Block("D-1", "/d-1")>>),
     Html(<<NoRecordBlock, Block("D-1", "/d-1")>>),
     Html(<<Block("D-1", self_url), Block("D-1", "/d-2")>>)}

\* The detail pages, and the address each shows ("" when it shows none or
\* cannot be fetched).
DetailUrls == {"/d-1", "/d-2"}
Addresses == {"", "12 Main St"}

\* prop['address'] = "NA"; properties.append(prop), with the provenance of
\* the record (page, position of the block on the page).
Listed(block, p, i) ==
    [property_no |-> block.property_no, url |-> block.url, address |-> NA,
     page |-> p, pos |-> i]

\* Mutant of AppendProp: the record is put in front of the list.
AppendProp_InFront(list, prop) == <<prop>> \o list

\* properties.append(prop)
AppendProp(list, prop) == Append(list, prop)

\* Mutant of NextPage: every other page is left out.
NextPage_Skip(p) == p + 2

\* Mutant of NextPage: the page counter is not advanced.
NextPage_Same(p) == p

\* page += 1
NextPage(p) == p + 1

\* while page <= max_pages
LoopContinues(p) == p <= max_pages

\* One property in _extract_addresses_in_batches: the detail page is fetched
\* unless the url is empty or self.url; the address is set when found.
WithAddress(prop, pages) ==
    IF prop.url = "" \/ prop.url = self_url THEN prop
    ELSE IF pages[prop.url] /= "" THEN [prop EXCEPT !.address = pages[prop.url]]
    ELSE prop

\* _extract_addresses_in_batches(crawler, properties)
ExtractAddresses(props, pages) ==
    [i \in 1..Len(props) |-> WithAddress(props[i], pages)]

EwIdle ==
    /\ site = <<>>
    /\ detail = <<>>
    /\ ew_pc = "off"
    /\ page = 0
    /\ ew_blocks = <<>>
    /\ block_no = 0
    /\ ew_properties = <<>>
    /\ ew_unique_properties = <<>>
    /\ ew_written = FALSE
    /\ ew_saved = <<>>
    /\ ew_returned = <<>>
    /\ phases = <<>>

\* A scraper has been constructed; nothing has run.
EwInit ==
    /\ site \in [1..max_pages -> PagePool]
    /\ detail \in [DetailUrls -> Addresses]
    /\ ew_pc = "idle"
    /\ page = 0
    /\ ew_blocks = <<>>
    /\ block_no = 0
    /\ ew_properties = <<>>
    /\ ew_unique_properties = <<>>
    /\ ew_written = FALSE
    /\ ew_saved = <<>>
    /\ ew_returned = <<>>
    /\ phases = <<>>

Phase(name) == phases' = Append(phases, [phase |-> name, page |-> page])

\* scrape() enters _extract_property_list: properties = [], page = 1.
EwStart ==
    /\ ew_pc = "idle"
    /\ ew_pc' = "fetch"
    /\ page' = 1
    /\ ew_properties' = <<>>
    /\ UNCHANGED <<notEwVars, site, detail, ew_blocks, block_no, ew_unique_properties,
                   ew_written, ew_saved, ew_returned, phases>>

\* crawler.arun(page_url): an exception or an empty result.html breaks out of
\* the page loop.
EwFetch ==
    /\ ew_pc = "fetch"
    /\ ew_pc' = IF site[page].status = "html" THEN "locate" ELSE "listed"
    /\ Phase("fetch")
    /\ UNCHANGED <<notEwVars, site, detail, page, ew_blocks, block_no, ew_properties,
                   ew_unique_properties, ew_written, ew_saved, ew_returned>>

\* soup = BeautifulSoup(...); property_blocks = _find_property_blocks(soup);
\* no blocks breaks out of the page loop.
EwLocate ==
    /\ ew_pc = "locate"
    /\ ew_blocks' = site[page].blocks
    /\ block_no' = 1
    /\ ew_pc' = IF site[page].blocks = <<>> THEN "listed" ELSE "extract"
    /\ Phase("locate")
    /\ UNCHANGED <<notEwVars, site, detail, page, ew_properties, ew_unique_properties,
                   ew_written, ew_saved, ew_returned>>

\* One turn of `for block in property_blocks`; after the last block of the
\* page, page += 1 and the loop test.
EwExtractBlock ==
    /\ ew_pc = "extract"
    /\ ew_properties' =
           IF ew_blocks[block_no].yields
           THEN AppendProp(ew_properties, Listed(ew_blocks[block_no], page, block_no))
           ELSE ew_properties
    /\ IF block_no < Len(ew_blocks)
       THEN /\ block_no' = block_no + 1
            /\ UNCHANGED <<ew_pc, page>>
       ELSE /\ page' = NextPage(page)
            /\ ew_pc' = IF LoopContinues(NextPage(page)) THEN "fetch" ELSE "listed"
            /\ UNCHANGED block_no
    /\ Phase("extract")
    /\ UNCHANGED <<notEwVars, site, detail, ew_blocks, ew_unique_properties, ew_written,
                   ew_saved, ew_returned>>

\* Back in scrape(): `if not properties: return []`.
EwListed ==
    /\ ew_pc = "listed"
    /\ IF ew_properties = <<>>
       THEN ew_pc' = "done" /\ ew_returned' = <<>>
       ELSE ew_pc' = "addresses" /\ UNCHANGED ew_returned
    /\ UNCHANGED <<notEwVars, site, detail, page, ew_blocks, block_no, ew_properties,
                   ew_unique_properties, ew_written, ew_saved, phases>>

\* Step 2: _extract_addresses_in_batches.
EwAddresses ==
    /\ ew_pc = "addresses"
    /\ ew_properties' = ExtractAddresses(ew_properties, detail)
    /\ ew_pc' = "dedup"
    /\ Phase("fetch details")
    /\ UNCHANGED <<notEwVars, site, detail, page, ew_blocks, block_no,
                   ew_unique_properties, ew_written, ew_saved, ew_returned>>

\* Step 3: unique_properties = self._remove_duplicates(...).
EwDedup ==
    /\ ew_pc = "dedup"
    /\ ew_unique_properties' = RemoveDuplicates(ew_properties)
    /\ ew_pc' = "save"
    /\ Phase("dedup")
    /\ UNCHANGED <<notEwVars, site, detail, page, ew_blocks, block_no, ew_properties,
                   ew_written, ew_saved, ew_returned>>

\* json.dump(unique_properties, f); return unique_properties.
EwSave ==
    /\ ew_pc = "save"
    /\ ew_written' = TRUE
    /\ ew_saved' = ew_unique_properties
    /\ ew_returned' = ew_unique_properties
    /\ ew_pc' = "done"
    /\ Phase("save")
    /\ UNCHANGED <<notEwVars, site, detail, page, ew_blocks, block_no, ew_properties,
                   ew_unique_properties>>

EwNext ==
    \/ EwStart
    \/ EwFetch
    \/ EwLocate
    \/ EwExtractBlock
    \/ EwListed
    \/ EwAddresses
    \/ EwDedup
    \/ EwSave

(***************************************************************************)
(* MetrobankScraper._process_table                                         *)
(*                                                                         *)
(* A table is a list of rows, a row a list of cells, a cell a text (a      *)
(* sequence of tokens: words, blanks, punctuation) or None.                *)
(***************************************************************************)

\* Rows of a table.
MaxTableRows == 3

\* str.upper() and str.lower() on the words of the tables.
UpperTok(t) ==
    CASE t = "Property" -> "PROPERTY"
      [] t = "No." -> "NO."
      [] t = "Complete" -> "COMPLETE"
      [] t = "Address" -> "ADDRESS"
      [] t = "Remarks" -> "REMARKS"
      [] t = "Makati" -> "MAKATI"
      [] t = "Cebu" -> "CEBU"
      [] t = "sold" -> "SOLD"
      [] t = "as-is" -> "AS-IS"
      [] OTHER -> t

LowerTok(t) ==
    CASE t = "Property" -> "property"
      [] t = "No." -> "no."
      [] t = "Complete" -> "complete"
      [] t = "Address" -> "address"
      [] t = "Remarks" -> "remarks"
      [] t = "Makati" -> "makati"
      [] t = "Cebu" -> "cebu"
      [] t = "PROPERTY" -> "property"
      [] t = "TYPE" -> "type"
      [] t = "LOCATION" -> "location"
      [] t = "SELLING" -> "selling"
      [] t = "PRICE" -> "price"
      [] t = "AREA" -> "area"
      [] t = "TCT-1" -> "tct-1"
      [] t = "TCT-2" -> "tct-2"
      [] OTHER -> t

Upper(text) == [i \in 1..Len(text) |-> UpperTok(text[i])]
Lower(text) == [i \in 1..Len(text) |-> LowerTok(text[i])]

\* The number of characters of a word.
CharsOf(t) ==
    CASE t \in {" ", ":"} -> 1
      [] t = "No." -> 3
      [] t \in {"TYPE", "AREA", "Cebu", "sold"} -> 4
      [] t \in {"PRICE", "TCT-1", "TCT-2", "1,000", "as-is"} -> 5
      [] t = "Makati" -> 6
      [] t \in {"SELLING", "Address", "Remarks"} -> 7
      [] t \in {"PROPERTY", "LOCATION", "Property", "Complete"} -> 8

\* len(cell)
RECURSIVE CharLen(_)
CharLen(text) == IF text = <<>> THEN 0 ELSE CharsOf(Head(text)) + CharLen(Tail(text))

\* `keyword in text`
InText(keyword, text) ==
    \E i \in 1..(Len(text) - Len(keyword) + 1) :
        SubSeq(text, i, i + Len(keyword) - 1) = keyword

\* " ".join(row)
RECURSIVE Join(_)
Join(row) ==
    IF row = <<>> THEN <<>>
    ELSE IF Len(row) = 1 THEN row[1]
    ELSE row[1] \o <<" ">> \o Join(Tail(row))

\* [str(cell).strip() if cell else "" for cell in row]
RowStr(row) == [i \in 1..Len(row) |-> IF Truthy(row[i]) THEN Strip(row[i]) ELSE <<>>]

\* The keywords of _is_header_row.
header_keywords ==
    {<<"PROPERTY">>, <<"LOCATION">>, <<"PRICE">>, <<"AREA">>, <<"DESCRIPTION">>,
     <<"TYPE">>, <<"CLASSIFICATION">>, <<"STATUS">>}

\* The keywords of the header search in _process_table.
table_keywords ==
    {<<"PROPERTY">>, <<"LOCATION">>, <<"PRICE">>, <<"AREA">>, <<"DESCRIPTION">>,
     <<"TYPE">>, <<"CLASSIFICATION">>}

table_disclaimers ==
    {<<"DISCLAIMER">>, <<"AS-IS">>, <<"WHERE-IS">>, <<"NO", " ", "RECOURSE">>}

\* The keywords of _is_disclaimer_row.
disclaimer_keywords ==
    {<<"disclaimer">>, <<"as-is">>, <<"where-is">>, <<"no", " ", "recourse">>,
     <<"warranties">>, <<"buybacks">>}

meaningful_fields ==
    {<<"PROPERTY">>, <<"LOCATION">>, <<"PRICE">>, <<"AREA">>, <<"DESCRIPTION">>}

\* keyword_count of _is_header_row
KeywordCount(row_str) ==
    LET row_text == Upper(Join(row_str))
    IN  Cardinality({k \in header_keywords : InText(k, row_text)})

\* Mutant of IsHeaderRow: the threshold is exclusive and at 25%.
IsHeaderRow_Quarter(row_str) ==
    row_str /= <<>> /\ 4 * KeywordCount(row_str) >= Cardinality(header_keywords)

\* _is_header_row(row): keyword_count >= len(header_keywords) * 0.3
IsHeaderRow(row_str) ==
    /\ row_str /= <<>>
    /\ 10 * KeywordCount(row_str) >= 3 * Cardinality(header_keywords)

\* _is_disclaimer_row(row)
IsDisclaimerRow(row_str) ==
    LET row_text == Lower(Join(row_str))
    IN  row_str /= <<>> /\ \E k \in disclaimer_keywords : InText(k, row_text)

\* The test of the header search: the row is not empty, no cell holds
\* 'disclaimer', some table keyword and no disclaimer keyword is in the row
\* text, and at least three cells are longer than five characters.
IsTableHeader(row) ==
    LET row_str == RowStr(row)
        row_text == Upper(Join(row_str))
    IN  /\ row /= <<>>
        /\ ~\E i \in 1..Len(row) :
                row_str[i] /= <<>> /\ InText(<<"disclaimer">>, Lower(row_str[i]))
        /\ \E k \in table_keywords : InText(k, row_text)
        /\ ~\E k \in table_disclaimers : InText(k, row_text)
        /\ Cardinality({i \in 1..Len(row) :
                           row_str[i] /= <<>> /\ CharLen(row_str[i]) > 5}) >= 3

\* header_row_index (1-based; 0 when no header row is found)
HeaderRowIndex(t) ==
    IF \E i \in 1..Len(t) : IsTableHeader(t[i])
    THEN CHOOSE i \in 1..Len(t) :
             IsTableHeader(t[i]) /\ \A j \in 1..(i - 1) : ~IsTableHeader(t[j])
    ELSE 0

\* property_data: the row's cells under the header's names, '' where the row
\* is shorter than the header.
PropertyData(hdr, row_str) ==
    ZipDict(hdr, row_str \o [i \in 1..(IF Len(hdr) > Len(row_str)
                                       THEN Len(hdr) - Len(row_str) ELSE 0)
                                |-> <<>>])

\* _has_meaningful_data(property_data)
HasMeaningfulData(property_data) ==
    \E f \in meaningful_fields, key \in DOMAIN property_data :
        /\ InText(f, Upper(key))
        /\ property_data[key] /= <<>>
        /\ Strip(property_data[key]) /= <<>>

\* Mutant of IsDataRow: the rows after a repeated header or a disclaimer are
\* dropped as well.
IsDataRow_UntilHeader(t, h, i) ==
    /\ t[i] /= <<>>
    /\ Cardinality({j \in 1..Len(t[i]) : RowStr(t[i])[j] /= <<>>}) >= 2
    /\ \A q \in (h + 1)..i :
           t[q] = <<>> \/ ~(IsHeaderRow(RowStr(t[q])) \/ IsDisclaimerRow(RowStr(t[q])))
    /\ HasMeaningfulData(PropertyData(RowStr(t[h]), RowStr(t[i])))

\* Row i, after header row h, passes every `continue` of the data loop and
\* _has_meaningful_data.
IsDataRow(t, h, i) ==
    /\ t[i] /= <<>>
    /\ Cardinality({j \in 1..Len(t[i]) : RowStr(t[i])[j] /= <<>>}) >= 2
    /\ ~(IsHeaderRow(RowStr(t[i])) \/ IsDisclaimerRow(RowStr(t[i])))
    /\ HasMeaningfulData(PropertyData(RowStr(t[h]), RowStr(t[i])))

\* The data loop from row i on: the rows that yield a record, in order.
RECURSIVE DataRowsFrom(_, _, _)
DataRowsFrom(t, h, i) ==
    IF i > Len(t) THEN <<>>
    ELSE (IF IsDataRow(t, h, i) THEN <<i>> ELSE <<>>) \o DataRowsFrom(t, h, i + 1)

\* The run of _process_table on a table: the header row found, the rows that
\* yield a record, and the records.
Processed(t) ==
    LET h == HeaderRowIndex(t)
        rows == IF h = 0 THEN <<>> ELSE DataRowsFrom(t, h, h + 1)
        header_row == RowStr(t[h])
    IN  [header_row_index |-> h,
         rows |-> rows,
         properties |-> [k \in 1..Len(rows) |->
                            PropertyData(header_row, RowStr(t[rows[k]]))]]

\* _process_table(table, page_num, table_num)
ProcessTable(t) == Processed(t).properties

\* The rows a table may hold (three columns).
MetroRows ==
    {<< <<"PROPERTY", " ", "TYPE">>, <<"LOCATION">>, <<"SELLING", " ", "PRICE">> >>,
     << <<"Property", " ", "No.">>, <<"Complete", " ", "Address">>, <<"Remarks">> >>,
     << <<"AREA">>, <<"LOCATION">>, <<"PRICE">> >>,
     << <<"AREA">>, <<"Makati">>, <<"PRICE">> >>,
     << <<"TCT-1">>, <<"Makati">>, <<"1,000">> >>,
     << <<"TCT-2">>, <<" ", "Cebu">>, None >>,
     << <<"Makati">>, None, <<>> >>,
     << <<"sold", " ", "as-is">>, <<"Makati">>, None >>,
     <<>>}

MetroIdle ==
    /\ table = <<>>
    /\ metro_pc = "done"
    /\ header_row_index = 0
    /\ metro_properties = <<>>
    /\ metro_origin = <<>>

\* _process_table is called with a table of the PDF.
MetroInit ==
    /\ \E n \in 0..MaxTableRows : table \in [1..n -> MetroRows]
    /\ metro_pc = "call"
    /\ header_row_index = 0
    /\ metro_properties = <<>>
    /\ metro_origin = <<>>

process_table ==
    /\ metro_pc = "call"
    /\ LET run == Processed(table)
       IN  /\ header_row_index' = run.header_row_index
           /\ metro_origin' = run.rows
           /\ metro_properties' = run.properties
    /\ metro_pc' = "done"
    /\ UNCHANGED <<table, dedupVars, pnbVars, locVars, extVars, ewVars, bpiRunVars, moreVars>>

MetroNext == process_table

(***************************************************************************)
(* BPIManualHTMLParser.run                                                 *)
(*                                                                         *)
(* The directory holds downloaded pages.  A page is a search results page  *)
(* (a list of result containers), a property detail page, a page of        *)
(* neither kind, or a file that cannot be read.  A container is given by   *)
(* what _extract_single_property makes of it: a record with a property_id  *)
(* and a detail_url, or a failure.                                         *)
(***************************************************************************)

MaxFiles == 2

Container(id, url) == [status |-> "record", property_id |-> id, detail_url |-> url]
FailingContainer == [status |-> "raises", property_id |-> NA, detail_url |-> NA]

SearchPage(containers) == [kind |-> "search", containers |-> containers, title |-> ""]
DetailPage(title) == [kind |-> "detail", containers |-> <<>>, title |-> title]

BuenaManoUrl(id) == "https://www.buenamano.ph/property/" \o id

FilePool ==
    {[kind |-> "unreadable", containers |-> <<>>, title |-> ""],
     [kind |-> "unknown", containers |-> <<>>, title |-> ""],
     SearchPage(<<>>),
     SearchPage(<<Container("03997-O-247", BuenaManoUrl("03997-O-247"))>>),
     SearchPage(<<Container("03997-O-247", BuenaManoUrl("03997-O-247")),
                  Container("04100-B-001", BuenaManoUrl("04100-B-001"))>>),
     SearchPage(<<Container("04100-B-001", NA),
                  Container("04100-B-001", BuenaManoUrl("04100-B-001"))>>),
     SearchPage(<<FailingContainer, Container(NA, NA)>>),
     DetailPage("House & Lot"),
     DetailPage(NA)}

\* The name of the i-th file of the directory.
FileName(i) == "page-" \o ToString(i) \o ".html"

\* One turn of the container loop of extract_properties_from_html.
ContainerStep(source_file, list, c) ==
    IF c.status = "record"
    THEN Append(list, [property_id |-> c.property_id,
                       detail_url |-> c.detail_url,
                       source_file |-> source_file])
    ELSE list

\* extract_properties_from_html(html_content, source_file)
RECURSIVE extract_properties_from_html(_, _, _)
extract_properties_from_html(containers, source_file, i) ==
    IF i = 0 THEN <<>>
    ELSE ContainerStep(source_file,
                       extract_properties_from_html(containers, source_file, i - 1),
                       containers[i])

\* extract_detailed_property_info: the record of a detail page has a title
\* and no property_id or detail_url.
DetailedInfo(file) == [title |-> file.title, full_address |-> NA]

\* The body of `for i, html_file in enumerate(html_files, 1)`.
ParseFile(list, file, name) ==
    CASE file.kind = "search" ->
             list \o extract_properties_from_html(file.containers, name,
                                                  Len(file.containers))
      [] file.kind = "detail" ->
             IF file.title /= NA THEN Append(list, DetailedInfo(file)) ELSE list
      [] OTHER -> list

\* `return properties` in run()
RunResult(props) == props

\* Mutant of FreshList: the list of the last call is kept.
FreshList_Kept(previous) == previous

\* all_properties = [] at the start of parse_all_html_files.
FreshList(previous) == <<>>

NoOutcome == [returned |-> <<>>, written |-> FALSE, file |-> <<>>]

BpiRunIdle ==
    /\ html_files = <<>>
    /\ bpi_pc = "off"
    /\ file_no = 0
    /\ all_properties = <<>>
    /\ output_written = FALSE
    /\ output_file = <<>>
    /\ bpi_returned = <<>>
    /\ bpi_runs = 0
    /\ first_run = NoOutcome

\* A parser has been constructed over a directory; nothing has run.
BpiRunInit ==
    /\ \E n \in 0..MaxFiles : html_files \in [1..n -> FilePool]
    /\ bpi_pc = "idle"
    /\ file_no = 0
    /\ all_properties = <<>>
    /\ output_written = FALSE
    /\ output_file = <<>>
    /\ bpi_returned = <<>>
    /\ bpi_runs = 1
    /\ first_run = NoOutcome

notBpiRunVars == <<dedupVars, pnbVars, locVars, extVars, ewVars, metroVars, moreVars>>

\* run() calls parse_all_html_files: all_properties = []; with no files it
\* returns [] and run() returns that.
BpiRunStart ==
    /\ bpi_pc = "idle"
    /\ all_properties' = FreshList(all_properties)
    /\ IF html_files = <<>>
       THEN bpi_pc' = "done" /\ bpi_returned' = <<>> /\ UNCHANGED file_no
       ELSE bpi_pc' = "files" /\ file_no' = 1 /\ UNCHANGED bpi_returned
    /\ UNCHANGED <<notBpiRunVars, bpi_runs, first_run, html_files, output_written, output_file>>

\* One file of the loop; a failure inside the try is logged and the loop
\* continues.
BpiParseFile ==
    /\ bpi_pc = "files"
    /\ all_properties' = ParseFile(all_properties, html_files[file_no],
                                   FileName(file_no))
    /\ IF file_no < Len(html_files)
       THEN file_no' = file_no + 1 /\ UNCHANGED bpi_pc
       ELSE bpi_pc' = "parsed" /\ UNCHANGED file_no
    /\ UNCHANGED <<notBpiRunVars, bpi_runs, first_run, html_files, output_written, output_file,
                   bpi_returned>>

\* The end of parse_all_html_files: `if all_properties:
\* self.save_properties(all_properties)`; return all_properties.
BpiParseSave ==
    /\ bpi_pc = "parsed"
    /\ IF all_properties /= <<>>
       THEN output_written' = TRUE /\ output_file' = SaveUnique(all_properties)
       ELSE UNCHANGED <<output_written, output_file>>
    /\ bpi_pc' = "summary"
    /\ UNCHANGED <<notBpiRunVars, bpi_runs, first_run, html_files, file_no, all_properties,
                   bpi_returned>>

\* Back in run(): `if properties: self.save_properties(properties)`;
\* return properties.
BpiRunReturn ==
    /\ bpi_pc = "summary"
    /\ IF all_properties /= <<>>
       THEN output_written' = TRUE /\ output_file' = SaveUnique(all_properties)
       ELSE UNCHANGED <<output_written, output_file>>
    /\ bpi_returned' = RunResult(all_properties)
    /\ bpi_pc' = "done"
    /\ UNCHANGED <<notBpiRunVars, bpi_runs, first_run, html_files, file_no, all_properties>>

\* run() is called a second time on the same directory, by a parser that
\* has run once.
BpiRunAgain ==
    /\ bpi_pc = "done"
    /\ bpi_runs = 1
    /\ bpi_runs' = 2
    /\ first_run' = [returned |-> bpi_returned, written |-> output_written,
                     file |-> output_file]
    /\ bpi_pc' = "idle"
    /\ file_no' = 0
    /\ UNCHANGED <<notBpiRunVars, html_files, all_properties, output_written,
                   output_file, bpi_returned>>

BpiRunNext ==
    \/ BpiRunStart
    \/ BpiParseFile
    \/ BpiParseSave
    \/ BpiRunReturn
    \/ BpiRunAgain

(***************************************************************************)
(* BaseBankScraper.scrape and _normalize_data                              *)
(*                                                                         *)
(* A mapping is the list of its (key, value) pairs in insertion order, a   *)
(* key a text, a value a text or None.                                     *)
(***************************************************************************)

\* Longest list _extract_property_list returns.
MaxListed == 2

Pair(key, value) == [key |-> key, value |-> value]

expected_fields ==
    {<<"title">>, <<"classification">>, <<"area">>, <<"floor", "_", "area">>,
     <<"location">>, <<"province">>, <<"price">>, <<"comments">>,
     <<"photo", "_", "url">>}

\* str.lower() on one word of a key.
LowerWord(t) ==
    CASE t = "Title" -> "title"
      [] t = "TITLE" -> "title"
      [] t = "Floor" -> "floor"
      [] t = "Area" -> "area"
      [] t = "Price" -> "price"
      [] t = "Lot" -> "lot"
      [] OTHER -> t

\* key.lower().replace(" ", "_")
NormalizedKey(key) ==
    [i \in 1..Len(key) |-> IF key[i] = " " THEN "_" ELSE LowerWord(key[i])]

\* Mutant of NormalizeStep: the value is copied whether or not it is truthy.
NormalizeStep_AnyValue(normalized, pair) ==
    IF NormalizedKey(pair.key) \in DOMAIN normalized
    THEN [normalized EXCEPT ![NormalizedKey(pair.key)] = pair.value]
    ELSE normalized

\* One turn of `for key, value in property_data.items()`.
NormalizeStep(normalized, pair) ==
    IF NormalizedKey(pair.key) \in DOMAIN normalized /\ Truthy(pair.value)
    THEN [normalized EXCEPT ![NormalizedKey(pair.key)] = pair.value]
    ELSE normalized

\* _normalize_data(property_data)
NormalizeData(property_data) ==
    FoldLeft(NormalizeStep, [field \in expected_fields |-> NAText],
             property_data, 1)

\* "detail_url" in property_data
HasKey(mapping, key) == \E i \in 1..Len(mapping) : mapping[i].key = key

ValueOf(mapping, key) ==
    mapping[CHOOSE i \in 1..Len(mapping) : mapping[i].key = key].value

\* One pair of dict.update: the value of an existing key is replaced in
\* place, a new key is added at the end.
UpdateStep(mapping, pair) ==
    IF HasKey(mapping, pair.key)
    THEN [i \in 1..Len(mapping) |->
             IF mapping[i].key = pair.key THEN pair ELSE mapping[i]]
    ELSE Append(mapping, pair)

\* property_data.update(detailed_info)
Update(property_data, detailed_info) ==
    FoldLeft(UpdateStep, property_data, detailed_info, 1)

\* properties[:self.max_results]: all of the list for None, the first m items
\* for m >= 0, all but the last -m items for m < 0.
Truncated(list, limit) ==
    IF ~limit.limited THEN list
    ELSE IF limit.n >= 0
    THEN SubSeq(list, 1, IF limit.n < Len(list) THEN limit.n ELSE Len(list))
    ELSE SubSeq(list, 1, Len(list) + limit.n)

\* self.max_results: None (EastwestBankScraper.__init__), or the integer of
\* MAX_RESULTS_PER_BANK.
NoLimit == [limited |-> FALSE, n |-> 0]
Limit(m) == [limited |-> TRUE, n |-> m]
Limits == {NoLimit} \cup {Limit(m) : m \in (0 - 1)..MaxListed}

DetailUrlKey == <<"detail_url">>
BaseDetailUrls == {<<"/d-1">>, <<"/d-2">>}

\* The mappings a list may hold.
ItemPool ==
    {<<>>,
     <<Pair(<<"Title">>, <<"Lot 5">>), Pair(DetailUrlKey, <<"/d-1">>)>>,
     <<Pair(<<"title">>, <<"Lot 6">>), Pair(<<"TITLE">>, <<>>),
       Pair(<<"Floor", " ", "Area">>, <<"50">>),
       Pair(<<"Lot", " ", "No">>, <<"7">>)>>,
     <<Pair(<<"Title">>, <<"Lot 7">>), Pair(<<"title">>, <<"Lot 8">>),
       Pair(<<"Price">>, None)>>,
     <<Pair(DetailUrlKey, <<"/d-2">>), Pair(<<"price">>, <<"1,000">>)>>}

\* The mappings a detail page may give.
DetailPool ==
    {<<>>,
     <<Pair(<<"price">>, <<"2,000">>), Pair(<<"comments">>, <<>>)>>,
     <<Pair(<<"title">>, <<"Lot 5 A">>)>>}

BaseIdle ==
    /\ extracted_list = <<>>
    /\ max_results = NoLimit
    /\ detail_pages = <<>>
    /\ base_pc = "off"
    /\ base_properties = <<>>
    /\ detailed_properties = <<>>
    /\ detail_fetches = <<>>
    /\ normalize_inputs = <<>>
    /\ base_written = FALSE
    /\ base_saved = <<>>
    /\ base_returned = <<>>

\* A scraper has been constructed; nothing has run.
BaseInit ==
    /\ \E n \in 0..MaxListed : extracted_list \in [1..n -> ItemPool]
    /\ max_results \in Limits
    /\ detail_pages \in [BaseDetailUrls -> DetailPool]
    /\ base_pc = "idle"
    /\ base_properties = <<>>
    /\ detailed_properties = <<>>
    /\ detail_fetches = <<>>
    /\ normalize_inputs = <<>>
    /\ base_written = FALSE
    /\ base_saved = <<>>
    /\ base_returned = <<>>

\* properties = await self._extract_property_list(crawler);
\* properties = properties[:self.max_results]; detailed_properties = [].
BaseExtractList ==
    /\ base_pc = "idle"
    /\ base_properties' = Truncated(extracted_list, max_results)
    /\ detailed_properties' = <<>>
    /\ base_pc' = "items"
    /\ UNCHANGED <<notBaseVars, extracted_list, max_results, detail_pages,
                   detail_fetches, normalize_inputs, base_written, base_saved,
                   base_returned>>

\* One turn of `for property_data in properties`.
BaseItem ==
    /\ base_pc = "items"
    /\ Len(detailed_properties) < Len(base_properties)
    /\ LET i == Len(detailed_properties) + 1
           property_data == base_properties[i]
           fetches == HasKey(property_data, DetailUrlKey)
           updated == IF fetches
                      THEN Update(property_data,
                                  detail_pages[ValueOf(property_data, DetailUrlKey)])
                      ELSE property_data
       IN  /\ detail_fetches' = IF fetches THEN Append(detail_fetches, i)
                                ELSE detail_fetches
           /\ normalize_inputs' = Append(normalize_inputs, updated)
           /\ detailed_properties' =
                  Append(detailed_properties, NormalizeData(updated))
    /\ UNCHANGED <<notBaseVars, extracted_list, max_results, detail_pages, base_pc,
                   base_properties, base_written, base_saved, base_returned>>

\* self._save_results(detailed_properties); return detailed_properties.
BaseSave ==
    /\ base_pc = "items"
    /\ Len(detailed_properties) = Len(base_properties)
    /\ base_written' = TRUE
    /\ base_saved' = detailed_properties
    /\ base_returned' = detailed_properties
    /\ base_pc' = "done"
    /\ UNCHANGED <<notBaseVars, extracted_list, max_results, detail_pages,
                   base_properties, detailed_properties, detail_fetches,
                   normalize_inputs>>

BaseNext ==
    \/ BaseExtractList
    \/ BaseItem
    \/ BaseSave

(***************************************************************************)
(* BPIScraper._extract_property_list                                       *)
(*                                                                         *)
(* A response is what crawler.arun gives at one attempt: an exception, a   *)
(* result without HTML, or a page, given by whether its text holds one of  *)
(* the Cloudflare phrases and by the links of its h4 elements.             *)
(***************************************************************************)

\* for attempt in range(3)
attempts == 3

PageOf(cloudflare, h4_elements) ==
    [status |-> "html", cloudflare |-> cloudflare, h4_elements |-> h4_elements]

\* The <a> of an h4: absent, without href, or with href and text.
NoLink == [link |-> FALSE, has_href |-> FALSE, href |-> <<>>, title |-> ""]
BareLink == [link |-> TRUE, has_href |-> FALSE, href |-> <<>>, title |-> "Lot"]
Link(href, title) == [link |-> TRUE, has_href |-> TRUE, href |-> href, title |-> title]

PropertyHref == <<"/", "property", "/", "03997-O-247">>
AboutHref == <<"/", "about">>

ResponsePool ==
    {[status |-> "raises", cloudflare |-> FALSE, h4_elements |-> <<>>],
     [status |-> "no html", cloudflare |-> FALSE, h4_elements |-> <<>>],
     PageOf(TRUE, <<Link(PropertyHref, "House & Lot")>>),
     PageOf(FALSE, <<>>),
     PageOf(FALSE, <<NoLink, BareLink, Link(AboutHref, "About")>>),
     PageOf(FALSE, <<Link(PropertyHref, "House & Lot")>>),
     PageOf(FALSE, <<Link(AboutHref, "About"), Link(PropertyHref, "House & Lot"),
                     Link(PropertyHref, "Lot")>>)}

\* '/property/' in href
IsPropertyHref(href) ==
    \E i \in 1..(Len(href) - 2) :
        href[i] = "/" /\ href[i + 1] = "property" /\ href[i + 2] = "/"

\* One turn of `for h4 in h4_elements`.
LinkStep(links, h4) ==
    IF h4.link /\ h4.has_href /\ IsPropertyHref(h4.href)
    THEN Append(links, [title |-> h4.title, detail_url |-> h4.href])
    ELSE links

\* property_links of a page.
PropertyLinks(response) == FoldLeft(LinkStep, <<>>, response.h4_elements, 1)

\* Mutant of AttemptFails: a page without property links ends the loop.
AttemptFails_EmptyListReturned(response) ==
    \/ response.status /= "html"
    \/ response.cloudflare

\* The turn of the loop goes on to the next attempt: the fetch raises, there
\* is no HTML, the page is a Cloudflare page, or property_links is empty.
AttemptFails(response) ==
    \/ response.status /= "html"
    \/ response.cloudflare
    \/ PropertyLinks(response) = <<>>

FetchIdle ==
    /\ responses = <<>>
    /\ fetch_pc = "off"
    /\ attempt = 0
    /\ fetch_log = <<>>
    /\ property_links = <<>>

FetchInit ==
    /\ responses \in [1..attempts -> ResponsePool]
    /\ fetch_pc = "idle"
    /\ attempt = 0
    /\ fetch_log = <<>>
    /\ property_links = <<>>

\* The function is entered; the loop starts with attempt = 0.
FetchStart ==
    /\ fetch_pc = "idle"
    /\ fetch_pc' = "loop"
    /\ attempt' = 0
    /\ UNCHANGED <<notFetchVars, responses, fetch_log, property_links>>

\* One turn of the loop: the fetch, then return property_links or go on.
FetchAttempt ==
    /\ fetch_pc = "loop"
    /\ attempt < attempts
    /\ fetch_log' = Append(fetch_log, attempt)
    /\ IF AttemptFails(responses[attempt + 1])
       THEN /\ attempt' = attempt + 1
            /\ UNCHANGED <<fetch_pc, property_links>>
       ELSE /\ property_links' = PropertyLinks(responses[attempt + 1])
            /\ fetch_pc' = "done"
            /\ UNCHANGED attempt
    /\ UNCHANGED <<notFetchVars, responses>>

\* The loop is exhausted: return [].
FetchGiveUp ==
    /\ fetch_pc = "loop"
    /\ attempt >= attempts
    /\ property_links' = <<>>
    /\ fetch_pc' = "done"
    /\ UNCHANGED <<notFetchVars, responses, attempt, fetch_log>>

FetchNext ==
    \/ FetchStart
    \/ FetchAttempt
    \/ FetchGiveUp

(***************************************************************************)
(* Security Bank: the line parser of                                       *)
(* SecurityBankPDFScraper._extract_property_list                           *)
(* (scrapers/security_bank_scraper.py).  A line is the sequence of its     *)
(* whitespace-separated words; a field value is a sequence of words, ""    *)
(* is the empty sequence.                                                  *)
(***************************************************************************)

\* Longest table_content, in lines, that the model enumerates.
MaxLines == 3

\* The alternatives of the property-type pattern and of its optional
\* qualifier.
TypeWords == {"Residential", "Commercial", "Agricultural", "Industrial",
              "Condominium"}
Qualifiers == {"Lot", "Unit", "Building", "House", "Condo", "Property"}

\* re.IGNORECASE: the pattern's spelling of a word of the text.
IgnoreCase(word) ==
    CASE word = "condominium" -> "Condominium"
      [] word = "lot" -> "Lot"
      [] word = "Consolidated" -> "CONSOLIDATED"
      [] OTHER -> word

\* Words matching \d+(?:,\d+)?(?:\.\d+)? and [\d,]+(?:\.\d+)?.
Numbers == {"5", "45", "60", "80", "120", "200", "900,000", "1,200,000",
            "1,500,000", "2,000,000"}

\* Words whose cased characters are all upper case.
UpperWords == {"PHP", "CONSOLIDATED", "UNDER", "SBC", "NOTE", "N/A"}

\* len(word).
Chars(word) ==
    CASE word \in {"5"} -> 1
      [] word \in {"45", "60", "80"} -> 2
      [] word \in {"120", "200", "PHP", "SBC", "Lot", "lot", "Blk", "N/A"} -> 3
      [] word \in {"Unit", "City", "NOTE"} -> 4
      [] word \in {"sqms.", "UNDER", "Pasig"} -> 5
      [] word \in {"Makati", "Quezon"} -> 6
      [] word \in {"900,000"} -> 7
      [] word \in {"1,200,000", "1,500,000", "2,000,000"} -> 9
      [] word \in {"Commercial"} -> 10
      [] word \in {"Residential", "condominium", "Condominium"} -> 11
      [] word \in {"CONSOLIDATED", "Consolidated"} -> 12
      [] OTHER -> 8

\* len(text) of words joined by single blanks.
RECURSIVE TextLen(_)
TextLen(text) ==
    IF text = <<>> THEN 0
    ELSE IF Len(text) = 1 THEN Chars(text[1])
    ELSE Chars(text[1]) + 1 + TextLen(Tail(text))

\* str.isupper(): some cased character, none of them lower case.
IsUpper(text) ==
    /\ \E i \in 1..Len(text) : text[i] \in UpperWords
    /\ \A i \in 1..Len(text) : text[i] \in UpperWords \cup Numbers

\* The lines a table_content is made of.
LinePool ==
    { <<"Residential", "Lot", "Blk", "5", "120", "sqms.", "80", "sqms.",
        "PHP", "1,500,000", "PHP", "1,200,000", "CONSOLIDATED">>,
      <<"Commercial", "Unit", "Makati", "City", "45", "sqms.">>,
      <<"condominium", "Pasig", "City">>,
      <<"60", "sqms.", "PHP", "900,000">>,
      <<"200", "sqms.", "PHP", "2,000,000", "Consolidated", "UNDER", "SBC">>,
      <<"Quezon", "City">>,
      <<"NOTE">>,
      <<>> }

\* re.search(r'^(Residential|Commercial|...)', line, re.IGNORECASE).
StartsProperty(line) == line /= <<>> /\ IgnoreCase(line[1]) \in TypeWords

\* property_type_match.group(0): the type word and its qualifier, if any.
PropertyTypeOf(line) ==
    IF Len(line) >= 2 /\ IgnoreCase(line[2]) \in Qualifiers
    THEN SubSeq(line, 1, 2)
    ELSE SubSeq(line, 1, 1)

\* line[description_start:].strip()
DescriptionPart(line) ==
    SubSeq(line, Len(PropertyTypeOf(line)) + 1, Len(line))

\* The positions at which the area pattern matches, and the first one's
\* value: re.search gives the leftmost match of the line only.
AreaPositions(line) ==
    {i \in 1..(Len(line) - 1) : line[i] \in Numbers /\ line[i + 1] = "sqms."}
HasAreaMatch(line) == AreaPositions(line) /= {}
AreaMatch(line) ==
    LET i == CHOOSE p \in AreaPositions(line) :
                 \A q \in AreaPositions(line) : p <= q
    IN  <<line[i], "sqms.">>

\* The same for r'PHP\s+([\d,]+(?:\.\d+)?)'.
PricePositions(line) ==
    {i \in 1..(Len(line) - 1) : line[i] = "PHP" /\ line[i + 1] \in Numbers}
HasPriceMatch(line) == PricePositions(line) /= {}
PriceMatch(line) ==
    LET i == CHOOSE p \in PricePositions(line) :
                 \A q \in PricePositions(line) : p <= q
    IN  <<"PHP", line[i + 1]>>

\* r'(CONSOLIDATED\s+UNDER\s+SBC|CONSOLIDATED)' with re.IGNORECASE.
StatusPositions(line) ==
    {i \in 1..Len(line) : IgnoreCase(line[i]) = "CONSOLIDATED"}
HasStatusMatch(line) == StatusPositions(line) /= {}
StatusMatch(line) ==
    LET i == CHOOSE p \in StatusPositions(line) :
                 \A q \in StatusPositions(line) : p <= q
    IN  IF /\ i + 2 <= Len(line)
           /\ IgnoreCase(line[i + 1]) = "UNDER"
           /\ IgnoreCase(line[i + 2]) = "SBC"
        THEN SubSeq(line, i, i + 2)
        ELSE <<line[i]>>

\* any(keyword in line for keyword in ['sqms.', 'PHP', 'CONSOLIDATED',
\* 'PROPERTY TYPE', 'PROPERTY DESCRIPTION'])
HasDataKeyword(line) ==
    \/ \E i \in 1..Len(line) : line[i] \in {"sqms.", "PHP", "CONSOLIDATED"}
    \/ \E i \in 1..(Len(line) - 1) :
           line[i] = "PROPERTY" /\ line[i + 1] \in {"TYPE", "DESCRIPTION"}

\* The dict before the first property line: {}.
NoFields == [key \in {} |-> <<>>]

\* dict.get(key) of a dict of texts, None read as "".
Field(mapping, key) ==
    IF key \in DOMAIN mapping THEN mapping[key] ELSE <<>>

\* mapping[key] = value
SetItem(mapping, key, value) ==
    [k \in DOMAIN mapping \cup {key} |->
        IF k = key THEN value ELSE mapping[k]]

\* A mutant: the new record starts from the fields of the one before.
StartRecord_KeepsFields(previous) ==
    IF "Lot_area" \in DOMAIN previous /\ "Property_type" \in DOMAIN previous
    THEN previous
    ELSE [Property_type |-> <<>>, Property_description |-> <<>>,
          Lot_area |-> Field(previous, "Lot_area"),
          Floor_area |-> Field(previous, "Floor_area"),
          suggested_price |-> Field(previous, "suggested_price"),
          sale_price |-> Field(previous, "sale_price"),
          status_of_title |-> Field(previous, "status_of_title"),
          remarks |-> <<"From", "Security", "Bank", "PDF", "listing">>]

\* The dict literal a property line assigns to current_property.
StartRecord(previous) ==
    [Property_type |-> <<>>, Property_description |-> <<>>,
     Lot_area |-> <<>>, Floor_area |-> <<>>,
     suggested_price |-> <<>>, sale_price |-> <<>>,
     status_of_title |-> <<>>,
     remarks |-> <<"From", "Security", "Bank", "PDF", "listing">>]

\* " ".join(current_description_lines)
RECURSIVE JoinLines(_)
JoinLines(texts) ==
    IF texts = <<>> THEN <<>> ELSE Head(texts) \o JoinLines(Tail(texts))

\* re.sub of the (case-sensitive) property-type pattern by ''.
RECURSIVE RemoveTypes(_)
RemoveTypes(text) ==
    IF text = <<>> THEN <<>>
    ELSE IF text[1] \in TypeWords
         THEN IF Len(text) >= 2 /\ text[2] \in Qualifiers
              THEN RemoveTypes(SubSeq(text, 3, Len(text)))
              ELSE RemoveTypes(Tail(text))
         ELSE <<text[1]>> \o RemoveTypes(Tail(text))

\* 'Save previous property': the list after the record in hand, cleaned up,
\* is appended if it has a Property_type.
Emit(list, record, description_lines) ==
    IF DOMAIN record /= {} /\ Field(record, "Property_type") /= <<>>
    THEN IF description_lines /= <<>>
         THEN Append(list, SetItem(record, "Property_description",
                                   RemoveTypes(JoinLines(description_lines))))
         ELSE Append(list, record)
    ELSE list

\* The area branch: the first match goes to Lot_area, the next to
\* Floor_area, any further one nowhere.
WithArea(record, line) ==
    IF ~HasAreaMatch(line) THEN record
    ELSE IF Field(record, "Lot_area") = <<>>
         THEN SetItem(record, "Lot_area", AreaMatch(line))
         ELSE IF Field(record, "Floor_area") = <<>>
              THEN SetItem(record, "Floor_area", AreaMatch(line))
              ELSE record

\* The price branch.
WithPrice(record, line) ==
    IF ~HasPriceMatch(line) THEN record
    ELSE IF Field(record, "suggested_price") = <<>>
         THEN SetItem(record, "suggested_price", PriceMatch(line))
         ELSE IF Field(record, "sale_price") = <<>>
              THEN SetItem(record, "sale_price", PriceMatch(line))
              ELSE record

\* The state of the loop: the record in hand, its description lines and the
\* list of emitted records.
LoopState(record, description_lines, list) ==
    [current_property |-> record,
     current_description_lines |-> description_lines,
     properties |-> list]

\* The 'starts a new property' branch of the loop body.
NewProperty(st, line) ==
    IF StartsProperty(line)
    THEN LoopState(
             SetItem(StartRecord(st.current_property), "Property_type",
                     PropertyTypeOf(line)),
             IF DescriptionPart(line) /= <<>>
             THEN <<DescriptionPart(line)>> ELSE <<>>,
             Emit(st.properties, st.current_property,
                  st.current_description_lines))
    ELSE st

\* The status branch and its elif, the description continuation.
WithStatusOrDescription(st, line) ==
    IF HasStatusMatch(line)
       /\ Field(st.current_property, "status_of_title") = <<>>
    THEN [st EXCEPT !.current_property =
                 SetItem(@, "status_of_title", StatusMatch(line))]
    ELSE IF /\ DOMAIN st.current_property /= {}
            /\ ~HasDataKeyword(line)
            /\ TextLen(line) > 3
            /\ ~IsUpper(line)
         THEN [st EXCEPT !.current_description_lines = Append(@, line)]
         ELSE st

\* One turn of `for line in lines`.
LineStep(st, line) ==
    IF line = <<>> THEN st
    ELSE LET started == NewProperty(st, line)
             measured == [started EXCEPT !.current_property =
                              WithPrice(WithArea(@, line), line)]
         IN  WithStatusOrDescription(measured, line)

\* The filter on the emitted records.
PassesFilter(prop) ==
    /\ Field(prop, "Property_type") /= <<>>
    /\ Field(prop, "Property_description") /= <<>>
    /\ TextLen(Field(prop, "Property_description")) > 10
    /\ Field(prop, "Property_description")[1] /= "Residential"

RECURSIVE Filtered(_)
Filtered(list) ==
    IF list = <<>> THEN <<>>
    ELSE IF PassesFilter(Head(list))
         THEN <<Head(list)>> \o Filtered(Tail(list))
         ELSE Filtered(Tail(list))

SecIdle ==
    /\ sec_lines = <<>>
    /\ sec_pc = "off"
    /\ sec_line_no = 0
    /\ current_property = NoFields
    /\ current_description_lines = <<>>
    /\ sec_properties = <<>>
    /\ sec_returned = <<>>

SecInit ==
    /\ sec_lines \in UNION {[1..n -> LinePool] : n \in 0..MaxLines}
    /\ sec_pc = "idle"
    /\ sec_line_no = 0
    /\ current_property = NoFields
    /\ current_description_lines = <<>>
    /\ sec_properties = <<>>
    /\ sec_returned = <<>>

\* The header was found: lines = table_content.split('\n'), the record in
\* hand is {} and nothing is emitted yet.
SecStart ==
    /\ sec_pc = "idle"
    /\ sec_pc' = "loop"
    /\ sec_line_no' = 0
    /\ current_property' = NoFields
    /\ current_description_lines' = <<>>
    /\ sec_properties' = <<>>
    /\ UNCHANGED <<notSecVars, sec_lines, sec_returned>>

\* The loop body on the next line.
SecLine ==
    /\ sec_pc = "loop"
    /\ sec_line_no < Len(sec_lines)
    /\ LET st == LineStep(LoopState(current_property,
                                    current_description_lines,
                                    sec_properties),
                          sec_lines[sec_line_no + 1])
       IN  /\ current_property' = st.current_property
           /\ current_description_lines' = st.current_description_lines
           /\ sec_properties' = st.properties
    /\ sec_line_no' = sec_line_no + 1
    /\ UNCHANGED <<notSecVars, sec_lines, sec_pc, sec_returned>>

\* After the loop: the last record, the filter, the return.
SecFinish ==
    /\ sec_pc = "loop"
    /\ sec_line_no = Len(sec_lines)
    /\ sec_properties' = Emit(sec_properties, current_property,
                              current_description_lines)
    /\ sec_returned' = Filtered(sec_properties')
    /\ sec_pc' = "done"
    /\ UNCHANGED <<notSecVars, sec_lines, sec_line_no, current_property,
                   current_description_lines>>

SecNext ==
    \/ SecStart
    \/ SecLine
    \/ SecFinish

(***************************************************************************)
(* The two drivers: ConsolidatedScraper (consolidated_scraper.py), which   *)
(* runs each bank's script as a child process, and the loop of             *)
(* foreclosed_scraper/main.py, which awaits each bank's scraper.           *)
(***************************************************************************)

\* Longest list of requested bank ids that the model enumerates.
MaxBanks == 3

\* The keys of ConsolidatedScraper.banks, of config.BANKS and of
\* main.BANK_SCRAPERS.
banks == {"bdo", "bpi", "security_bank", "metrobank", "eastwest_bank", "pnb"}
BANKS == {"bdo", "bdo_playwright", "bdo_stealth", "bdo_manual", "bpi",
          "security_bank", "metrobank", "eastwest_bank", "pnb", "landbank"}
BANK_SCRAPERS == {"bdo", "bpi", "security_bank", "metrobank",
                  "eastwest_bank", "pnb"}

\* The ids a request is made of: two banks every table knows, one only
\* config.BANKS knows, one nobody knows.
BankIdPool == {"bdo", "pnb", "landbank", "atlantis"}

\* How the child process of subprocess.run can end.
ScriptOutcomes == {"exit0", "exit1", "timeout", "error"}

\* How `await scraper.scrape()` inside main.scrape_bank can end.
ScrapeOutcomes == {"returned", "raised"}

\* A mutant: a script that timed out counts as a success.
run_script_TimeoutSucceeds(outcome) == outcome \in {"exit0", "timeout"}

\* run_script: True for return code 0; False for any other return code, for
\* TimeoutExpired and for any other exception.
run_script(outcome) == outcome = "exit0"

\* results = {}
NoResults == [bank_id \in {} |-> FALSE]

\* One entry of the history of banks handled.
Handled(bank_id, outcome) == [bank |-> bank_id, outcome |-> outcome]

ConsIdle ==
    /\ bank_ids = <<>>
    /\ program = "none"
    /\ cons_pc = "off"
    /\ bank_no = 0
    /\ running = {}
    /\ results = NoResults
    /\ handled = <<>>
    /\ successful = 0
    /\ total = 0

ConsInit ==
    /\ bank_ids \in UNION {[1..n -> BankIdPool] : n \in 0..MaxBanks}
    /\ program \in {"consolidated", "main"}
    /\ cons_pc = "idle"
    /\ bank_no = 0
    /\ running = {}
    /\ results = NoResults
    /\ handled = <<>>
    /\ successful = 0
    /\ total = 0

\* scrape_multiple_banks is entered: results = {}.
ConsStart ==
    /\ cons_pc = "idle"
    /\ program = "consolidated"
    /\ cons_pc' = "loop"
    /\ bank_no' = 0
    /\ results' = NoResults
    /\ UNCHANGED <<notConsVars, bank_ids, program, running, handled,
                   successful, total>>

\* scrape_bank returns False without running anything: the id is not in
\* self.banks, or the script file does not exist.
ConsNoScript ==
    /\ cons_pc = "loop"
    /\ program = "consolidated"
    /\ bank_no < Len(bank_ids)
    /\ LET bank_id == bank_ids[bank_no + 1]
       IN  /\ \E why \in {"unknown", "missing"} :
                 /\ (why = "unknown") <=> (bank_id \notin banks)
                 /\ handled' = Append(handled, Handled(bank_id, why))
           /\ results' = SetItem(results, bank_id, FALSE)
    /\ bank_no' = bank_no + 1
    /\ UNCHANGED <<notConsVars, bank_ids, program, cons_pc, running,
                   successful, total>>

\* scrape_bank calls run_script: subprocess.run starts the child and waits.
ConsRunScript ==
    /\ cons_pc = "loop"
    /\ program = "consolidated"
    /\ bank_no < Len(bank_ids)
    /\ bank_ids[bank_no + 1] \in banks
    /\ running' = running \cup {bank_no + 1}
    /\ cons_pc' = "script"
    /\ UNCHANGED <<notConsVars, bank_ids, program, bank_no, results, handled,
                   successful, total>>

\* The child ends, or the timeout or another exception is raised;
\* run_script returns, scrape_bank returns, results[bank_id] = success.
ConsScriptEnds ==
    /\ cons_pc = "script"
    /\ \E outcome \in ScriptOutcomes :
          /\ results' = SetItem(results, bank_ids[bank_no + 1],
                                run_script(outcome))
          /\ handled' = Append(handled,
                               Handled(bank_ids[bank_no + 1], outcome))
    /\ running' = running \ {bank_no + 1}
    /\ cons_pc' = "loop"
    /\ bank_no' = bank_no + 1
    /\ UNCHANGED <<notConsVars, bank_ids, program, successful, total>>

\* The summary: successful counts the True entries of results, the total
\* printed is len(bank_ids).
ConsSummary ==
    /\ cons_pc = "loop"
    /\ program = "consolidated"
    /\ bank_no = Len(bank_ids)
    /\ successful' = Cardinality({bank_id \in DOMAIN results :
                                      results[bank_id]})
    /\ total' = Len(bank_ids)
    /\ cons_pc' = "done"
    /\ UNCHANGED <<notConsVars, bank_ids, program, bank_no, running, results,
                   handled>>

\* main.scrape_multiple_banks is entered.
MainStart ==
    /\ cons_pc = "idle"
    /\ program = "main"
    /\ cons_pc' = "loop"
    /\ bank_no' = 0
    /\ UNCHANGED <<notConsVars, bank_ids, program, running, results, handled,
                   successful, total>>

\* One turn of main's loop: an id outside BANKS is skipped; otherwise
\* scrape_bank is awaited, and whatever the scraper does (there is none, it
\* returns, it raises) scrape_bank returns normally.
MainBank ==
    /\ cons_pc = "loop"
    /\ program = "main"
    /\ bank_no < Len(bank_ids)
    /\ LET bank_id == bank_ids[bank_no + 1]
       IN  \E outcome \in ScrapeOutcomes \cup {"not_found", "placeholder"} :
              /\ (outcome = "not_found") <=> (bank_id \notin BANKS)
              /\ (outcome = "placeholder") <=>
                     (bank_id \in BANKS \ BANK_SCRAPERS)
              /\ handled' = Append(handled, Handled(bank_id, outcome))
    /\ bank_no' = bank_no + 1
    /\ UNCHANGED <<notConsVars, bank_ids, program, cons_pc, running, results,
                   successful, total>>

\* main's loop is exhausted.
MainDone ==
    /\ cons_pc = "loop"
    /\ program = "main"
    /\ bank_no = Len(bank_ids)
    /\ cons_pc' = "done"
    /\ UNCHANGED <<notConsVars, bank_ids, program, bank_no, running, results,
                   handled, successful, total>>

ConsNext ==
    \/ ConsStart
    \/ ConsNoScript
    \/ ConsRunScript
    \/ ConsScriptEnds
    \/ ConsSummary
    \/ MainStart
    \/ MainBank
    \/ MainDone

MoreIdle == BaseIdle /\ FetchIdle /\ SecIdle /\ ConsIdle

FirstIdle ==
    /\ DedupIdle /\ PnbIdle /\ LocIdle /\ ExtIdle /\ EwIdle /\ MetroIdle
    /\ BpiRunIdle

(***************************************************************************)
(* Specifications                                                          *)
(***************************************************************************)

InitDedup == DedupInit /\ PnbIdle /\ LocIdle /\ ExtIdle /\ EwIdle /\ MetroIdle /\ BpiRunIdle /\ MoreIdle

SpecDedup == InitDedup /\ [][DedupNext]_vars

InitPNB == PnbIdle /\ DedupIdle /\ LocIdle /\ ExtIdle /\ EwIdle /\ MetroIdle /\ BpiRunIdle /\ MoreIdle

SpecPNB == InitPNB /\ [][PnbNext]_vars

InitLocate == LocInit /\ DedupIdle /\ PnbIdle /\ ExtIdle /\ EwIdle /\ MetroIdle /\ BpiRunIdle /\ MoreIdle

SpecLocate == InitLocate /\ [][LocNext]_vars

InitExtract == ExtInit /\ DedupIdle /\ PnbIdle /\ LocIdle /\ EwIdle /\ MetroIdle /\ BpiRunIdle /\ MoreIdle

SpecExtract == InitExtract /\ [][ExtNext]_vars

InitEastwest == EwInit /\ DedupIdle /\ PnbIdle /\ LocIdle /\ ExtIdle /\ MetroIdle /\ BpiRunIdle /\ MoreIdle

SpecEastwest == InitEastwest /\ [][EwNext]_vars

\* A started run goes on: every await of the run returns or raises.
SpecEastwestFair == InitEastwest /\ [][EwNext]_vars /\ WF_vars(EwNext)

InitMetro == MetroInit /\ DedupIdle /\ PnbIdle /\ LocIdle /\ ExtIdle /\ EwIdle /\ BpiRunIdle /\ MoreIdle

SpecMetro == InitMetro /\ [][MetroNext]_vars

InitBpiRun == BpiRunInit /\ DedupIdle /\ PnbIdle /\ LocIdle /\ ExtIdle /\ EwIdle /\ MetroIdle /\ MoreIdle

SpecBpiRun == InitBpiRun /\ [][BpiRunNext]_vars

InitBase == BaseInit /\ FirstIdle /\ FetchIdle /\ SecIdle /\ ConsIdle

SpecBase == InitBase /\ [][BaseNext]_vars

InitFetch == FetchInit /\ FirstIdle /\ BaseIdle /\ SecIdle /\ ConsIdle

\* Every awaited fetch returns or raises, so a started call goes on.
SpecFetch == InitFetch /\ [][FetchNext]_vars /\ WF_vars(FetchNext)

InitSecurity == SecInit /\ FirstIdle /\ BaseIdle /\ FetchIdle /\ ConsIdle

SpecSecurity == InitSecurity /\ [][SecNext]_vars

InitDrivers == ConsInit /\ FirstIdle /\ BaseIdle /\ FetchIdle /\ SecIdle

SpecDrivers == InitDrivers /\ [][ConsNext]_vars

(***************************************************************************)
(* Claims about deduplication                                              *)
(***************************************************************************)

Range(list) == {list[i] : i \in 1..Len(list)}

Kept(i) == properties[i] \in Range(unique_properties)

\* A record none of whose candidate keys carries a value.
SentinelKeyed(prop) ==
    /\ ~HasValue(Get(prop, "property_id", ""))
    /\ ~HasValue(Get(prop, "detail_url", ""))
    /\ ~HasValue(Get(prop, "property_no", ""))
    /\ ~HasValue(Get(prop, "url", ""))

\* The identity key of a BPI record in priority order: id, else url, else none.
BpiKey(prop) ==
    IF HasValue(Get(prop, "property_id", ""))
    THEN <<"id", Get(prop, "property_id", "")>>
    ELSE IF HasValue(Get(prop, "detail_url", ""))
    THEN <<"url", Get(prop, "detail_url", "")>>
    ELSE <<"none">>

\* The identity key of input record i under the function that has run.
KeyOf(i) ==
    IF dedup_pc = "save_properties" THEN BpiKey(properties[i])
    ELSE <<"key", EwKey(properties[i])>>

\* C2 as stated: after either dedup function every record whose candidate keys
\* are all empty or 'NA' is still in the output.
C2_SentinelNeverRemoved ==
    dedup_pc /= "input" =>
        \A i \in 1..Len(properties) : SentinelKeyed(properties[i]) => Kept(i)

\* C2 as amended: save_properties keeps every record whose property_id and
\* detail_url are both empty or 'NA'; _remove_duplicates keeps such a record
\* exactly when no earlier record has the same 'property_no|url' key string.
C2_SentinelRetention ==
    /\ dedup_pc = "save_properties" =>
            \A i \in 1..Len(properties) :
                SentinelKeyed(properties[i]) => Kept(i)
    /\ dedup_pc = "remove_duplicates" =>
            \A i \in 1..Len(properties) :
                SentinelKeyed(properties[i]) =>
                    (Kept(i) <=> \A j \in 1..(i - 1) :
                                    EwKey(properties[j]) /= EwKey(properties[i]))

\* The scenario of the specification: keys 'X-123', '', '' and all three kept
\* by save_properties.
C2_Witness ==
    /\ dedup_pc = "save_properties"
    /\ Len(properties) = 3
    /\ Get(properties[1], "property_id", "") = "X-123"
    /\ Get(properties[2], "property_id", "") = ""
    /\ Get(properties[3], "property_id", "") = ""
    /\ SentinelKeyed(properties[2]) /\ SentinelKeyed(properties[3])
    /\ unique_properties = properties

\* C3: the output of a dedup function is a subsequence of its input in the
\* same relative order, and of the records sharing an identity key exactly the
\* first of the input is kept.
C3_DedupStable ==
    dedup_pc /= "input" =>
        /\ \A k \in 1..Len(unique_properties) :
                /\ unique_properties[k].row \in 1..Len(properties)
                /\ unique_properties[k] = properties[unique_properties[k].row]
        /\ \A k1, k2 \in 1..Len(unique_properties) :
                k1 < k2 => unique_properties[k1].row < unique_properties[k2].row
        /\ \A i \in 1..Len(properties) :
                KeyOf(i) /= <<"none">> =>
                    (Kept(i) <=> \A j \in 1..(i - 1) : KeyOf(j) /= KeyOf(i))

\* A dedup run that dropped a middle record and kept records on both sides.
C3_Witness ==
    /\ dedup_pc /= "input"
    /\ Len(properties) = 3
    /\ Len(unique_properties) = 2
    /\ KeyOf(1) = KeyOf(2)
    /\ unique_properties = <<properties[1], properties[3]>>

\* C4 as stated: a record is dropped only if an earlier record has the same
\* identity fields and they carry a value (not all empty or 'NA').
C4_DroppedOnlyOnValueMatch ==
    dedup_pc /= "input" =>
        \A i \in 1..Len(properties) :
            ~Kept(i) =>
                \E j \in 1..(i - 1) :
                    /\ ~SentinelKeyed(properties[i])
                    /\ IF dedup_pc = "save_properties"
                       THEN BpiKey(properties[j]) = BpiKey(properties[i])
                       ELSE /\ properties[j].property_no = properties[i].property_no
                            /\ properties[j].url = properties[i].url

\* C4 as amended: save_properties drops a record only if an earlier record has
\* the same resolved key (same kind, same value, not empty, not 'NA');
\* _remove_duplicates drops a record only if an earlier record has the same
\* 'property_no|url' key string, empty and 'NA' values included.
C4_DroppedOnlyOnKeyMatch ==
    /\ dedup_pc = "save_properties" =>
            \A i \in 1..Len(properties) :
                ~Kept(i) =>
                    /\ BpiKey(properties[i]) /= <<"none">>
                    /\ \E j \in 1..(i - 1) :
                            BpiKey(properties[j]) = BpiKey(properties[i])
    /\ dedup_pc = "remove_duplicates" =>
            \A i \in 1..Len(properties) :
                ~Kept(i) =>
                    \E j \in 1..(i - 1) :
                        EwKey(properties[j]) = EwKey(properties[i])

\* _remove_duplicates dropped a record whose property_no is 'NA' and whose url
\* is empty, and save_properties would have kept it.
C4_Witness ==
    /\ dedup_pc = "remove_duplicates"
    /\ \E i \in 1..Len(properties) :
            /\ ~Kept(i)
            /\ properties[i].property_no = NA
            /\ properties[i].url = ""

IdOf(i) == Get(properties[i], "property_id", "")
UrlOf(i) == Get(properties[i], "detail_url", "")

\* Input record i is keyed by its id; by its url (it has no id).
IdKeyed(i) == HasValue(IdOf(i))
UrlKeyed(i) == ~IdKeyed(i) /\ HasValue(UrlOf(i))

\* C28 (save_properties): the key is the property_id when it has a value,
\* else the detail_url when it has a value, else none.  A record keyed by id
\* is kept exactly when no earlier record is keyed by the same id, whatever
\* the urls; a record keyed by url is kept exactly when no earlier record is
\* keyed by the same url, whatever the ids; a record without key is kept.
C28_KeyInPriorityOrder ==
    dedup_pc = "save_properties" =>
        \A i \in 1..Len(properties) :
            /\ IdKeyed(i) =>
                   (Kept(i) <=> ~\E j \in 1..(i - 1) :
                                    IdKeyed(j) /\ IdOf(j) = IdOf(i))
            /\ UrlKeyed(i) =>
                   (Kept(i) <=> ~\E j \in 1..(i - 1) :
                                    UrlKeyed(j) /\ UrlOf(j) = UrlOf(i))
            /\ (~IdKeyed(i) /\ ~UrlKeyed(i)) => Kept(i)

\* A record keyed by url was kept after a record keyed by id that has the
\* same url, and a record keyed by id was kept after a record with its url.
C28_Witness ==
    /\ dedup_pc = "save_properties"
    /\ \E i, j, k \in 1..Len(properties) :
           /\ i < j /\ j < k
           /\ IdKeyed(i) /\ UrlKeyed(j) /\ IdKeyed(k)
           /\ UrlOf(i) = UrlOf(j) /\ UrlOf(k) = UrlOf(j)
           /\ IdOf(i) /= IdOf(k)
           /\ Kept(i) /\ Kept(j) /\ Kept(k)

(***************************************************************************)
(* Claims about the PNB table pass                                         *)
(***************************************************************************)

MetaKeys ==
    {<<"Province">>, <<"City/Municipality">>, <<"Contact Person">>,
     <<"Contact Details">>}

\* Row i of this pass was read while its table had a header.
HeaderBefore(i) ==
    \E j \in 1..(i - 1) :
        /\ rows_read[j].table = rows_read[i].table
        /\ IsTitleRow(rows_read[j].row)

\* Row i of this pass is a metadata-only row: not a header row, read under a
\* header, exactly one non-empty cell.
MetaRowAt(i) ==
    /\ ~IsTitleRow(rows_read[i].row)
    /\ HeaderBefore(i)
    /\ NonEmptyCells(rows_read[i].row) = 1

\* The k-th '|'-separated part of the first cell of row i, trimmed, or None.
MetaPart(i, k) ==
    LET parts == Split(rows_read[i].row[1], "|")
    IN  IF k <= Len(parts) THEN Strip(parts[k]) ELSE None

PartOfKey(key) ==
    CASE key = <<"Province">> -> 1
      [] key = <<"City/Municipality">> -> 2
      [] key = <<"Contact Person">> -> 3
      [] key = <<"Contact Details">> -> 4

\* The metadata rows read before row o of this pass.
MetaRowsBefore(o) == {i \in 1..(o - 1) : MetaRowAt(i)}

LatestOf(S) == CHOOSE i \in S : \A j \in S : j <= i

\* C5: every record appended after a metadata row carries the Province,
\* City/Municipality and contact fields of the latest metadata row read before
\* it, whatever the cells of its own row are.
C5_CarryOverAttached ==
    \A k \in 1..Len(pnb_properties) :
        MetaRowsBefore(origin[k]) /= {} =>
            \A key \in MetaKeys :
                pnb_properties[k][key] =
                    MetaPart(LatestOf(MetaRowsBefore(origin[k])), PartOfKey(key))

\* The scenario of the specification: header, 'Laguna|Calamba|Juan|09171234567',
\* two data rows, and both records carry Laguna and Calamba.
C5_Witness ==
    /\ Len(rows_read) = 4
    /\ rows_read[1].row = HeaderRow
    /\ rows_read[2].row = MetaRow1
    /\ rows_read[3].row = DataRow1
    /\ rows_read[4].row = DataRow1
    /\ Len(pnb_properties) = 2
    /\ \A k \in 1..2 :
           /\ pnb_properties[k][<<"Province">>] = <<"Laguna">>
           /\ pnb_properties[k][<<"City/Municipality">>] = <<"Calamba">>
           /\ pnb_properties[k][<<"Title_ID">>] = <<"T-1">>

\* C6: the carry-over fields are None when a pass starts, and every carry-over
\* value on a record of a pass was read from a metadata row of that same pass.
C6_CarryOverScopedToPass ==
    /\ (pnb_pc = "rows" /\ rows_read = <<>>) =>
           CurrentMeta = [province |-> None, city |-> None,
                          contact_person |-> None, contact_details |-> None]
    /\ \A k \in 1..Len(pnb_properties) :
           \A key \in MetaKeys :
               pnb_properties[k][key] /= None =>
                   \E i \in MetaRowsBefore(origin[k]) :
                       pnb_properties[k][key] = MetaPart(i, PartOfKey(key))

\* A second pass, after a pass that read a metadata row, produced a record
\* without carry-over values.
C6_Witness ==
    /\ meta_before
    /\ Len(pnb_properties) >= 1
    /\ \A key \in MetaKeys : pnb_properties[1][key] = None

\* C10 (PNB pass): when the pass is over, every record built from the rows
\* read without error is in the returned list, also when some row raised.
C10_RowFailureDropsOnlyThatRow ==
    pnb_pc = "done" =>
        \A k \in 1..Len(pnb_properties) : pnb_properties[k] \in Range(pnb_returned)

\* C12 (PNB pass): when a failure interrupts the pass, its outcome carries the
\* records accumulated so far; the result is empty only if nothing had been
\* accumulated.
C12_FailureCarriesPartialResults ==
    pnb_pc = "done" =>
        /\ pnb_returned = pnb_properties
        /\ pnb_returned = <<>> => Len(origin) = 0

\* The carry-over field that is attached under a key.
CarryOver(key) ==
    CASE key = <<"Province">> -> current_province
      [] key = <<"City/Municipality">> -> current_city
      [] key = <<"Contact Person">> -> current_contact_person
      [] key = <<"Contact Details">> -> current_contact_details

\* The metadata rows read so far in this pass.
MetaRowsRead == {i \in 1..Len(rows_read) : MetaRowAt(i)}

\* C23: a metadata row replaces the four carry-over fields together.  Once a
\* metadata row has been read, each field is the matching '|'-part of the
\* latest metadata row, and None when that row has no such part, whatever the
\* rows before it held; and the four carry-over values of a record all come
\* from one and the same metadata row.
C23_MetaRowReplacesAllFour ==
    /\ (pnb_pc = "rows" /\ MetaRowsRead /= {}) =>
           \A key \in MetaKeys :
               CarryOver(key) = MetaPart(LatestOf(MetaRowsRead), PartOfKey(key))
    /\ \A k \in 1..Len(pnb_properties) :
           MetaRowsBefore(origin[k]) /= {} =>
               \E i \in MetaRowsBefore(origin[k]) :
                   \A key \in MetaKeys :
                       pnb_properties[k][key] = MetaPart(i, PartOfKey(key))

\* A four-part metadata row, then a two-part one, then a record: it has the
\* province of the second row and no contact of the first.
C23_Witness ==
    /\ Len(rows_read) = 4
    /\ rows_read[2].row = MetaRow1
    /\ rows_read[3].row = MetaRow2
    /\ Len(pnb_properties) = 1
    /\ origin[1] = 4
    /\ pnb_properties[1][<<"Province">>] = <<"Cebu">>
    /\ pnb_properties[1][<<"Contact Person">>] = None
    /\ pnb_properties[1][<<"Contact Details">>] = None

\* C21 (PNB records): every field value of every record the pass hands over
\* for saving is a string: none is None.
C21_FieldValuesAreStrings ==
    pnb_pc = "done" =>
        \A k \in 1..Len(pnb_returned) :
            \A key \in DOMAIN pnb_returned[k] : pnb_returned[k][key] /= None

(***************************************************************************)
(* Claims about the record locator                                         *)
(***************************************************************************)

\* Element a holds a call-to-actions element and at least three info blocks.
TitleWalkStop(a) ==
    HasCallToActions(soup, a) /\ InfoBlocks(soup, a) >= MinInfoBlocks

\* Element a holds a title element and at least three info blocks.
ActionsWalkStop(a) ==
    HasTitle(soup, a) /\ InfoBlocks(soup, a) >= MinInfoBlocks

\* The elements from n up to (excluding) <body>.
Chain(n) == AncOrSelf(soup, n) \ {0}

\* The title elements whose walk upward reaches a qualifying ancestor.
ReachingTitles ==
    {t \in Nodes(soup) : soup.title[t] /\ \E a \in Chain(t) : TitleWalkStop(a)}

\* The call-to-actions elements whose walk upward reaches a qualifying ancestor.
ReachingActions ==
    {c \in Nodes(soup) : soup.cta[c] /\ \E a \in Chain(c) : ActionsWalkStop(a)}

\* The nearest qualifying ancestor of title element t.
NearestStop(t) ==
    CHOOSE a \in Chain(t) :
        TitleWalkStop(a) /\ \A b \in Chain(t) : TitleWalkStop(b) => b <= a

\* The div containers that qualify for the direct match.
DirectMatches ==
    {n \in Nodes(soup) : /\ soup.tag[n] = "div"
                         /\ HasTitle(soup, n)
                         /\ HasCallToActions(soup, n)
                         /\ InfoBlocks(soup, n) >= MinInfoBlocks}

\* C7: when the direct container match yields nothing but the walk from some
\* title element reaches an ancestor with a call-to-actions element and at
\* least three info blocks, the function returns the ancestor-walk results,
\* one per title element whose walk succeeds, in document order, and so not
\* an empty list.
C7_TitleWalkFallback ==
    (loc_pc = "done" /\ DirectMatches = {} /\ ReachingTitles /= {}) =>
        /\ property_blocks /= <<>>
        /\ Len(property_blocks) = Cardinality(ReachingTitles)
        /\ \A t \in ReachingTitles :
               property_blocks[Cardinality({u \in ReachingTitles : u <= t})]
                   = NearestStop(t)

\* The fallback returned an ancestor above the element that holds the title.
C7_Witness ==
    /\ loc_pc = "done"
    /\ DirectMatches = {}
    /\ \E t \in ReachingTitles :
           /\ NearestStop(t) /= t
           /\ NearestStop(t) \in Range(property_blocks)

\* C8: zero fragments are reported only if none of the three passes finds a
\* qualifying container; the passes run in the order direct match, title walk,
\* actions walk; a later pass runs only when every earlier pass returned
\* nothing; and the result is the output of exactly one pass.
C8_PassesInOrderOneResult ==
    loc_pc = "done" =>
        /\ property_blocks = <<>> =>
               DirectMatches = {} /\ ReachingTitles = {} /\ ReachingActions = {}
        /\ Len(ran) \in 1..3
        /\ ran = SubSeq(<<"method1", "method2", "method3">>, 1, Len(ran))
        /\ Len(found) = Len(ran)
        /\ \A k \in 2..Len(ran) : \A j \in 1..(k - 1) : found[j] = <<>>
        /\ \E k \in 1..Len(ran) :
               /\ property_blocks = found[k]
               /\ \A j \in 1..Len(ran) : j /= k => found[j] = <<>>

\* All three passes ran on a page that has both markers, and none found a
\* container.
C8_Witness ==
    /\ loc_pc = "done"
    /\ ran = <<"method1", "method2", "method3">>
    /\ property_blocks = <<>>
    /\ \E t \in Nodes(soup) : soup.title[t]
    /\ \E c \in Nodes(soup) : soup.cta[c]

\* The title elements inside element n: one per property card.
CardsIn(n) == {t \in Subtree(soup, n) : soup.title[t]}

\* C9: every returned fragment is exactly one candidate record: no returned
\* container encloses another returned container or more than one property
\* card, and no card is represented by more than one returned fragment.
C9_OneFragmentPerCard ==
    loc_pc = "done" =>
        /\ \A j, k \in 1..Len(property_blocks) :
               j /= k => property_blocks[j] \notin AncOrSelf(soup, property_blocks[k])
        /\ \A k \in 1..Len(property_blocks) :
               Cardinality(CardsIn(property_blocks[k])) <= 1
        /\ \A t \in Nodes(soup) : soup.title[t] =>
               Cardinality({k \in 1..Len(property_blocks) :
                               t \in Subtree(soup, property_blocks[k])}) <= 1

(***************************************************************************)
(* Claims about the extractors                                             *)
(***************************************************************************)

\* A record with exactly the given keys, none of them absent.
FullRecord(r, fields) ==
    /\ r /= None
    /\ DOMAIN r = fields
    /\ \A k \in fields : r[k] /= None

RowResolves(row) == row.icon /= None /\ row.city /= None

\* The value the Eastwest info blocks give key k: the text of the last block
\* labelled for k, 'NA' when there is none.
EwInfoValue(block, k) ==
    LET Hits == {i \in 1..Len(block.info_blocks) :
                    /\ block.info_blocks[i].label /= None
                    /\ block.info_blocks[i].text /= None
                    /\ EwFieldOf(GetText(block.info_blocks[i].label)) = k}
    IN  IF Hits = {} THEN NAText
        ELSE GetText(block.info_blocks[CHOOSE i \in Hits : \A j \in Hits : j <= i].text)

InParentheses(title) ==
    {<<title[i + 1]>> : i \in {i \in 1..(Len(title) - 2) :
                                  /\ title[i] = "(" /\ title[i + 2] = ")"
                                  /\ \A j \in 1..(i - 1) : title[j] /= "("}}

\* The segments that follow a '/property/' in a url.
AfterProperty(url) ==
    IF url = None THEN {}
    ELSE {<<url[i + 3]>> : i \in {i \in 1..(Len(url) - 3) :
                                     /\ url[i] = "/" /\ url[i + 1] = "property"
                                     /\ url[i + 2] = "/" /\ url[i + 3] /= "/"}}

\* The longest prefix of a title that holds no '('.
BeforeParenthesis(title) ==
    LET n == CHOOSE k \in 0..Len(title) :
                 /\ \A j \in 1..k : title[j] /= "("
                 /\ k < Len(title) => title[k + 1] = "("
    IN  SubSeq(title, 1, n)

\* C20 as stated: the id of a BPI record is the text inside the parentheses of
\* its title.
C20_IdFromTitle ==
    (ext_pc = "done" /\ extractor = "bpi" /\ container.link.present) =>
        \A id \in InParentheses(extracted["title"]) :
            extracted["property_id"] = id

\* C20 (amended): the type of a BPI record is the trimmed text of its title
\* before the first '(' ('NA' when there is no such text), whatever the rest
\* of the container; the id is the path segment after '/property/' in the
\* href of the title link ('NA' when the href has none), whatever the title.
C20_TypeFromTitleIdFromUrl ==
    (ext_pc = "done" /\ extractor = "bpi" /\ container.link.present) =>
        LET title == extracted["title"]
        IN  /\ title = GetText(container.link.text)
            /\ extracted["property_type"] =
                   IF BeforeParenthesis(title) = <<>> THEN NAText
                   ELSE Strip(BeforeParenthesis(title))
            /\ IF AfterProperty(container.link.href) = {}
               THEN extracted["property_id"] = NAText
               ELSE extracted["property_id"] \in AfterProperty(container.link.href)

\* The title 'House & Lot (03997-O-247)' gave the type 'House & Lot', and the
\* id came from a url that names another id.
C20_Witness ==
    /\ ext_pc = "done" /\ extractor = "bpi" /\ container.link.present
    /\ extracted["title"] = <<"House & Lot", " ", "(", "03997-O-247", ")">>
    /\ extracted["property_type"] = <<"House & Lot">>
    /\ extracted["property_id"] = <<"8841">>

(***************************************************************************)
(* Claims about the Eastwest run                                           *)
(***************************************************************************)

\* The listing does not end before page p: every earlier page either could
\* not be supplied or held blocks.
ListingReaches(p) ==
    \A q \in 1..(p - 1) : site[q].status /= "html" \/ site[q].blocks /= <<>>

\* The record of block i of page p is in the list.
HasRecordOf(list, p, i) ==
    \E k \in 1..Len(list) : list[k].page = p /\ list[k].pos = i

\* C13 (Eastwest pages): a page that cannot be supplied is lost alone: every
\* other page of the listing is still processed and the records of its blocks
\* are in the extracted list.
C13_FailedPageIsSkippedAlone ==
    ew_pc = "done" =>
        \A p \in 1..max_pages :
            (site[p].status = "html" /\ ListingReaches(p)) =>
                \A i \in 1..Len(site[p].blocks) :
                    site[p].blocks[i].yields => HasRecordOf(ew_properties, p, i)

\* Record a comes before record b in the document: an earlier page, or the
\* same page and an earlier block.
Before(a, b) == a.page < b.page \/ (a.page = b.page /\ a.pos < b.pos)

InDocumentOrder(list) ==
    \A j, k \in 1..Len(list) : j < k => Before(list[j], list[k])

WithKeyOf(list, r) == {k \in 1..Len(list) : EwKey(list[k]) = EwKey(r)}

PhaseRank(name) ==
    CASE name = "fetch" -> 1
      [] name = "locate" -> 2
      [] name = "extract" -> 3
      [] name = "fetch details" -> 4
      [] name = "dedup" -> 5
      [] name = "save" -> 6

InPageLoop(step) == PhaseRank(step.phase) <= 3

HasPhase(name) == \E i \in 1..Len(phases) : phases[i].phase = name

\* C19 as stated: once extraction has started, nothing is fetched or located
\* any more.
C19_NoFetchAfterExtraction ==
    \A i, j \in 1..Len(phases) :
        (i < j /\ phases[i].phase = "extract") =>
            phases[j].phase \notin {"fetch", "locate", "fetch details"}

\* C19 (amended): the page loop goes through the pages in increasing order
\* and, within a page, fetches once, then locates once, then extracts block
\* after block; a later page is fetched only after the blocks of the pages
\* before it.  After the page loop the detail pages are fetched, then the
\* list is deduplicated, then it is saved: the steps after the loop happen
\* once each, in that order, and the file is written only by the save step
\* that follows deduplication.
C19_PhasesInOrder ==
    /\ \A i, j \in 1..Len(phases) :
           i < j =>
               IF InPageLoop(phases[i]) /\ InPageLoop(phases[j])
               THEN \/ phases[i].page < phases[j].page
                    \/ /\ phases[i].page = phases[j].page
                       /\ PhaseRank(phases[i].phase) <= PhaseRank(phases[j].phase)
                       /\ phases[i].phase = phases[j].phase =>
                              phases[i].phase = "extract"
               ELSE PhaseRank(phases[i].phase) < PhaseRank(phases[j].phase)
    /\ HasPhase("save") => HasPhase("dedup")
    /\ HasPhase("dedup") => HasPhase("fetch details")
    /\ HasPhase("fetch details") => HasPhase("extract")
    /\ ew_written <=> HasPhase("save")

\* A run that fetched a page after extracting from an earlier one, and saved.
C19_Witness ==
    /\ ew_written
    /\ \E i, j \in 1..Len(phases) :
           /\ i < j
           /\ phases[i].phase = "extract"
           /\ phases[j].phase = "fetch"
           /\ phases[i].page < phases[j].page

\* The fetches of listing pages so far, in the order they were made.
Fetches == LET IsFetch(step) == step.phase = "fetch" IN SelectSeq(phases, IsFetch)

\* Page p ends the page loop: it raises, has no HTML or has no blocks.
PageStops(p) == site[p].status /= "html" \/ site[p].blocks = <<>>

\* The page loop has been left.
LoopLeft == ew_pc \in {"listed", "addresses", "dedup", "save", "done"}

\* The k-th fetch is of page k, there are at most max_pages fetches, a page is
\* fetched only when no page before it ended the loop, no page has more
\* extraction steps than blocks, and once the loop is left the last page
\* fetched ended it (or was page max_pages) and the accumulated list holds
\* exactly the records of the yielding blocks of the pages before the stop.
PagesInOrderUntilStop ==
    /\ Len(Fetches) <= max_pages
    /\ \A k \in 1..Len(Fetches) :
           /\ Fetches[k].page = k
           /\ \A q \in 1..(k - 1) : ~PageStops(q)
    /\ \A p \in 1..max_pages :
           Cardinality({k \in 1..Len(phases) :
                           phases[k].phase = "extract" /\ phases[k].page = p})
               <= Len(site[p].blocks)
    /\ LoopLeft =>
           /\ Len(Fetches) >= 1
           /\ PageStops(Len(Fetches)) \/ Len(Fetches) = max_pages
           /\ \A p \in 1..max_pages :
                  \A i \in 1..Len(site[p].blocks) :
                      HasRecordOf(ew_properties, p, i) <=>
                          /\ p <= Len(Fetches)
                          /\ ~PageStops(p)
                          /\ site[p].blocks[i].yields
           /\ \A k \in 1..Len(ew_properties) :
                  /\ ew_properties[k].page \in 1..Len(Fetches)
                  /\ ew_properties[k].pos \in
                         1..Len(site[ew_properties[k].page].blocks)

\* C27: the page loop fetches pages 1, 2, 3, ... in order, none skipped or
\* fetched twice, at most max_pages of them; it stops at the first page that
\* raises, has no HTML or has no blocks, and the list then holds all records
\* of the pages before the stop; and the loop is always left in the end.
C27_PageLoopInOrderAndEnds == []PagesInOrderUntilStop /\ <>LoopLeft

\* The loop stopped at a second page that could not be supplied, with the
\* records of the first page in the list.
C27_Witness ==
    /\ LoopLeft
    /\ Len(Fetches) = 2
    /\ PageStops(2)
    /\ ew_properties /= <<>>

(***************************************************************************)
(* Claims about the Metrobank table pass                                   *)
(***************************************************************************)

\* Row i of the table, cleaned.
CleanRow(i) == RowStr(table[i])

\* Row i looks like a repeated header or like a disclaimer.
HeaderOrDisclaimerLike(i) ==
    table[i] /= <<>> /\ (IsHeaderRow(CleanRow(i)) \/ IsDisclaimerRow(CleanRow(i)))

\* Row i has at least two non-empty cells.
TwoCells(i) ==
    Cardinality({j \in 1..Len(table[i]) : CleanRow(i)[j] /= <<>>}) >= 2

\* Row i has a value under a meaningful column of the header row.
Meaningful(i) ==
    HasMeaningfulData(PropertyData(CleanRow(header_row_index), CleanRow(i)))

\* C14 as stated: the data rows end at the first header-like or
\* disclaimer-like row after the header: no row at or after such a row yields
\* a record, and no row at or before the header does.
C14_RowsUntilNextHeader ==
    metro_pc = "done" =>
        \A k \in 1..Len(metro_origin) :
            /\ metro_origin[k] > header_row_index
            /\ \A q \in (header_row_index + 1)..metro_origin[k] :
                   ~HeaderOrDisclaimerLike(q)

\* C14 (amended): the records come from exactly the rows after the header row
\* that have two non-empty cells, are neither header-like nor disclaimer-like
\* and hold meaningful data; a header-like or disclaimer-like row is skipped
\* alone, the rows after it are still candidates; no row at or before the
\* header yields a record.
C14_RowsAfterHeaderSkipOnly ==
    metro_pc = "done" =>
        /\ header_row_index = 0 => metro_origin = <<>>
        /\ \A k \in 1..Len(metro_origin) :
               /\ metro_origin[k] > header_row_index
               /\ ~HeaderOrDisclaimerLike(metro_origin[k])
               /\ \A j \in 1..(k - 1) : metro_origin[j] < metro_origin[k]
        /\ header_row_index > 0 =>
               \A i \in (header_row_index + 1)..Len(table) :
                   (TwoCells(i) /\ ~HeaderOrDisclaimerLike(i) /\ Meaningful(i))
                       => i \in Range(metro_origin)

\* A row after a repeated header or a disclaimer yields a record.
C14_Witness ==
    /\ metro_pc = "done"
    /\ \E k \in 1..Len(metro_origin) :
           \E q \in (header_row_index + 1)..(metro_origin[k] - 1) :
               HeaderOrDisclaimerLike(q)

NoTwoWithSameKey(list) ==
    \A j, k \in 1..Len(list) :
        (j /= k /\ BpiKey(list[j]) /= <<"none">>) => BpiKey(list[j]) /= BpiKey(list[k])

\* C18 (BPIManualHTMLParser.run): the list run() returns holds no two records
\* with the same identity key, and it is the sequence written to the output
\* file.
C18_ReturnedIsTheWrittenList ==
    (bpi_pc = "done" /\ output_written) =>
        /\ NoTwoWithSameKey(bpi_returned)
        /\ bpi_returned = output_file

Min(a, b) == IF a < b THEN a ELSE b

\* The number of records the claim gives for a list of n items.
ClaimedCount(n) == IF max_results.limited THEN Min(n, max_results.n) ELSE n

\* The items of the extracted list that have a 'detail_url' key, among the
\* first k.
WithDetailUrl(k) ==
    {i \in 1..k : HasKey(extracted_list[i], DetailUrlKey)}

\* C24 (BaseBankScraper.scrape): a finished run returns and saves exactly
\* min(n, max_results) records (n when max_results is None), record i coming
\* from item i; a detail page is fetched exactly for the items among them
\* that have a 'detail_url' key, and the others are normalized and included.
C24_ReturnsMinOfListAndLimit ==
    base_pc = "done" =>
        /\ Len(base_returned) = ClaimedCount(Len(extracted_list))
        /\ base_saved = base_returned
        /\ Range(detail_fetches) = WithDetailUrl(Len(base_returned))
        /\ \A i \in 1..Len(base_returned) :
               base_returned[i] =
                   NormalizeData(
                       IF HasKey(extracted_list[i], DetailUrlKey)
                       THEN Update(extracted_list[i],
                                   detail_pages[ValueOf(extracted_list[i],
                                                        DetailUrlKey)])
                       ELSE extracted_list[i])

\* The truthy values a mapping holds under the keys that normalize to a field.
Candidates(mapping, field) ==
    {mapping[k].value : k \in {k \in 1..Len(mapping) :
                                  /\ NormalizedKey(mapping[k].key) = field
                                  /\ Truthy(mapping[k].value)}}

\* C25 (_normalize_data): the result has exactly the nine expected keys; a key
\* holds a truthy input value found under a key that normalizes to it, when
\* there is one, and 'NA' otherwise; no other input key is in the result.
C25_NineKeysOrNA ==
    \A i \in 1..Len(detailed_properties) :
        /\ DOMAIN detailed_properties[i] = expected_fields
        /\ Cardinality(DOMAIN detailed_properties[i]) = 9
        /\ \A field \in expected_fields :
               IF Candidates(normalize_inputs[i], field) = {}
               THEN detailed_properties[i][field] = NAText
               ELSE detailed_properties[i][field]
                        \in Candidates(normalize_inputs[i], field)

\* A mapping with 'title', an empty 'TITLE', 'Floor Area' and a key outside the
\* nine was normalized.
C25_Witness ==
    \E i \in 1..Len(detailed_properties) :
        /\ HasKey(normalize_inputs[i], <<"Lot", " ", "No">>)
        /\ HasKey(normalize_inputs[i], <<"TITLE">>)
        /\ detailed_properties[i][<<"title">>] = <<"Lot 6">>
        /\ detailed_properties[i][<<"floor", "_", "area">>] = <<"50">>
        /\ detailed_properties[i][<<"price">>] = NAText

(***************************************************************************)
(* Claims about the BPI link fetch                                         *)
(***************************************************************************)

\* The h4 elements of a response whose link is a '/property/' link.
PropertyH4s(response) ==
    {i \in 1..Len(response.h4_elements) :
        /\ response.h4_elements[i].link
        /\ response.h4_elements[i].has_href
        /\ IsPropertyHref(response.h4_elements[i].href)}

\* An attempt that counts as failed: an exception, no HTML, a Cloudflare page
\* or no '/property/' link.
FailedAttempt(k) ==
    \/ responses[k].status \in {"raises", "no html"}
    \/ responses[k].cloudflare
    \/ PropertyH4s(responses[k]) = {}

\* The attempts that do not fail.
GoodAttempts == {k \in 1..attempts : ~FailedAttempt(k)}

\* The k-th fetch is attempt k, there are at most three, and each is made
\* only after the attempts before it failed; a finished call returns the
\* '/property/' links of the first attempt that did not fail, having made no
\* fetch after it, and [] after three failed attempts.
FetchesUntilFirstSuccess ==
    /\ Len(fetch_log) <= 3
    /\ \A k \in 1..Len(fetch_log) :
           /\ fetch_log[k] = k - 1
           /\ \A q \in 1..(k - 1) : FailedAttempt(q)
    /\ fetch_pc = "done" =>
           IF GoodAttempts = {}
           THEN Len(fetch_log) = 3 /\ property_links = <<>>
           ELSE /\ Len(fetch_log) \in GoodAttempts
                /\ Len(property_links) =
                       Cardinality(PropertyH4s(responses[Len(fetch_log)]))
                /\ property_links /= <<>>
                /\ \A j \in 1..Len(property_links) :
                       \E i \in PropertyH4s(responses[Len(fetch_log)]) :
                           /\ property_links[j].detail_url =
                                  responses[Len(fetch_log)].h4_elements[i].href
                           /\ property_links[j].title =
                                  responses[Len(fetch_log)].h4_elements[i].title

\* C26: the function makes at most 3 fetch attempts, returns the links of the
\* first attempt that yields '/property/' links without a further fetch, goes
\* on to the next attempt after a failed one, returns [] after 3 failed
\* attempts, and always returns.
C26_AtMostThreeAttempts == []FetchesUntilFirstSuccess /\ <>(fetch_pc = "done")

\* A first attempt that gave a page without property links, and a second one
\* whose two links were returned.
C26_Witness ==
    /\ fetch_pc = "done"
    /\ Len(fetch_log) = 2
    /\ responses[1].status = "html" /\ ~responses[1].cloudflare
    /\ Len(property_links) = 2


(***************************************************************************)
(* Claims about the Security Bank line parser                              *)
(***************************************************************************)

\* The lines that start a property.
StartLines == {i \in 1..Len(sec_lines) : StartsProperty(sec_lines[i])}

\* The lines of the record started at line i: line i and the lines after
\* it, up to the next line that starts a property.
LinesOf(i) ==
    {j \in i..Len(sec_lines) :
        \A k \in (i + 1)..j : ~StartsProperty(sec_lines[k])}

\* The n-th smallest line number of a set, 0 if it has fewer than n.
Nth(S, n) ==
    IF Cardinality(S) < n THEN 0
    ELSE CHOOSE j \in S : Cardinality({k \in S : k < j}) = n - 1

\* The n-th area, price or status match among the lines of the record
\* started at line i, "" if there are fewer than n.
NthArea(i, n) ==
    LET j == Nth({l \in LinesOf(i) : HasAreaMatch(sec_lines[l])}, n)
    IN  IF j = 0 THEN <<>> ELSE AreaMatch(sec_lines[j])
NthPrice(i, n) ==
    LET j == Nth({l \in LinesOf(i) : HasPriceMatch(sec_lines[l])}, n)
    IN  IF j = 0 THEN <<>> ELSE PriceMatch(sec_lines[j])
NthStatus(i, n) ==
    LET j == Nth({l \in LinesOf(i) : HasStatusMatch(sec_lines[l])}, n)
    IN  IF j = 0 THEN <<>> ELSE StatusMatch(sec_lines[j])

\* C29: when the line parser has ended, the emitted list has exactly one
\* record for each line that starts a property, in line order, and the
\* k-th record is filled from the lines of the k-th such line alone: its
\* Property_type is that line's, its Lot_area and Floor_area are the first
\* and the second area match among its lines, its suggested_price and
\* sale_price the first and the second price match, its status_of_title the
\* first status match, and a field with no such match is empty.  (A match
\* is what re.search finds on a line, the leftmost one.)  So no value of an
\* earlier line appears in the record and a third match overwrites nothing.
C29_FreshRecordFirstMatchesWin ==
    sec_pc = "done" =>
        /\ Len(sec_properties) = Cardinality(StartLines)
        /\ \A k \in 1..Len(sec_properties) :
              LET i == Nth(StartLines, k)
                  record == sec_properties[k]
              IN  /\ record.Property_type = PropertyTypeOf(sec_lines[i])
                  /\ record.Lot_area = NthArea(i, 1)
                  /\ record.Floor_area = NthArea(i, 2)
                  /\ record.suggested_price = NthPrice(i, 1)
                  /\ record.sale_price = NthPrice(i, 2)
                  /\ record.status_of_title = NthStatus(i, 1)

\* A run in which a record with areas, prices and a status is followed by a
\* record whose second area comes from a later line and which has no status.
C29_Witness ==
    /\ sec_pc = "done"
    /\ Len(sec_properties) = 2
    /\ sec_properties[1].status_of_title /= <<>>
    /\ sec_properties[1].suggested_price /= <<>>
    /\ sec_properties[2].Lot_area /= <<>>
    /\ sec_properties[2].Floor_area /= <<>>
    /\ sec_properties[2].Lot_area /= sec_properties[1].Lot_area
    /\ sec_properties[2].status_of_title = <<>>


(***************************************************************************)
(* Claims about the drivers                                                *)
(***************************************************************************)

\* The bank ids handled so far, in the order they were handled.
HandledBanks == [i \in 1..Len(handled) |-> handled[i].bank]

\* How the last handling of a bank id ended.
LastOutcome(bank_id) ==
    LET last == CHOOSE i \in 1..Len(handled) :
                    /\ handled[i].bank = bank_id
                    /\ \A j \in (i + 1)..Len(handled) :
                           handled[j].bank /= bank_id
    IN  handled[last].outcome

\* The requested ids whose script returned exit code 0 (for an id requested
\* more than once, at its last run).
ExitedZero ==
    {bank_id \in Range(bank_ids) : LastOutcome(bank_id) = "exit0"}

====
